---- MODULE Spec2Model ----
(***************************************************************************)
(* libdns-autodns: the provider (provider.go), the zone client (client.go: *)
(* getZone, setZone, sendAPIRequest, addRecords, setRecords,               *)
(* deleteRecords) and the record codec (models.go).                        *)
(*                                                                         *)
(* Go strings are sequences of one-character strings, so that TrimSuffix,  *)
(* HasSuffix, Sprintf and concatenation are computed as Go computes them.  *)
(* A time.Duration is counted in milliseconds.                             *)
(***************************************************************************)
EXTENDS Integers, Sequences, FiniteSets, TLC

\* ------------------------------------------------------------------------
\* Bounds of the model
\* ------------------------------------------------------------------------
\* longest record list a caller passes to Append / Set / Delete
MaxRecs == 2
\* longest row list of a zone document at the provider
MaxRows == 3
\* longest row list of a zone document in the initial state
MaxInitRows == 2

\* ------------------------------------------------------------------------
\* Go strings
\* ------------------------------------------------------------------------
HasSuffix(s, suf) ==
    /\ Len(suf) <= Len(s)
    /\ SubSeq(s, Len(s) - Len(suf) + 1, Len(s)) = suf

HasPrefix(s, pre) ==
    /\ Len(pre) <= Len(s)
    /\ SubSeq(s, 1, Len(pre)) = pre

TrimSuffix(s, suf) ==
    IF HasSuffix(s, suf) THEN SubSeq(s, 1, Len(s) - Len(suf)) ELSE s

TrimPrefix(s, pre) ==
    IF HasPrefix(s, pre) THEN SubSeq(s, Len(pre) + 1, Len(s)) ELSE s

RECURSIVE TrimLeft(_, _)
TrimLeft(s, c) ==
    IF s # <<>> /\ Head(s) = c THEN TrimLeft(Tail(s), c) ELSE s

RECURSIVE TrimRight(_, _)
TrimRight(s, c) ==
    IF s # <<>> /\ s[Len(s)] = c THEN TrimRight(SubSeq(s, 1, Len(s) - 1), c) ELSE s

\* strings.Trim(s, cutset) for a one-character cutset
Trim(s, c) == TrimRight(TrimLeft(s, c), c)

Digit(d) == <<"0", "1", "2", "3", "4", "5", "6", "7", "8", "9">>[d + 1]

\* fmt's %d of a non-negative integer
RECURSIVE Itoa(_)
Itoa(n) == IF n < 10 THEN <<Digit(n)>> ELSE Itoa(n \div 10) \o <<Digit(n % 10)>>

\* ------------------------------------------------------------------------
\* Literals
\* ------------------------------------------------------------------------
DOT == <<".">>
COLON == <<":">>
SPACE == <<" ">>
QUOTE == <<"\"">>
AT == <<"@">>
EMPTY == <<>>

TypeA == <<"A">>
TypeAAAA == <<"A", "A", "A", "A">>
TypeCAA == <<"C", "A", "A">>
TypeCNAME == <<"C", "N", "A", "M", "E">>
TypeMX == <<"M", "X">>
TypeNS == <<"N", "S">>
TypeSRV == <<"S", "R", "V">>
TypeTXT == <<"T", "X", "T">>
TypeUNKNOWN == <<"U", "N", "K", "N", "O", "W", "N">>
LitUnknown == <<"u", "n", "k", "n", "o", "w", "n">>

ExampleCom == <<"e", "x", "a", "m", "p", "l", "e", ".", "c", "o", "m">>
NameTest == <<"t", "e", "s", "t">>
NameTestAbs == NameTest \o DOT \o ExampleCom
ValOld == <<"o", "l", "d">>
ValNew == <<"n", "e", "w">>
Addr4 == <<"1", "9", "2", ".", "0", ".", "2", ".", "1">>
Addr6 == <<"2", "0", "0", "1", ":", "d", "b", "8", ":", ":", "1">>
NotAnAddr == <<"n", "o", "-", "i", "p">>

\* time.Second, in the model's unit of a time.Duration (milliseconds)
Second == 1000

\* ------------------------------------------------------------------------
\* libdns name helpers used by the codec
\* ------------------------------------------------------------------------
\* libdns.AbsoluteName(name, zone)
AbsoluteName(name, zone) ==
    IF zone = EMPTY THEN Trim(name, ".")
    ELSE IF name = EMPTY \/ name = AT THEN zone
    ELSE (IF HasSuffix(name, DOT) THEN name ELSE name \o DOT) \o zone

\* libdns.RelativeName(fqdn, zone)
RelativeName(fqdn, zone) ==
    LET rel == TrimSuffix(TrimSuffix(TrimSuffix(fqdn, DOT), TrimSuffix(zone, DOT)), DOT)
    IN IF rel = EMPTY THEN AT ELSE rel

\* ------------------------------------------------------------------------
\* models.go: rows and the encoder
\* ------------------------------------------------------------------------
\* ResourceRecord{Name, TTL, Type, Value, Pref, Raw}
Row(name, ttl, type, value, pref) ==
    [Name |-> name, TTL |-> ttl, Type |-> type, Value |-> value, Pref |-> pref, Raw |-> EMPTY]

\* the row of the default branch of the encoder's type switch
UnknownRow == Row(LitUnknown, 0, TypeUNKNOWN, LitUnknown, 0)

\* libdnsRecordToResourceRecord(record, zone); a record carries its Go type
\* in the field kind
libdnsRecordToResourceRecord(record, zone) ==
    CASE record.kind = "Address" ->
            Row(AbsoluteName(record.Name, zone), record.TTL \div Second, TypeA,
                record.IP.text, 0)
      [] record.kind = "CAA" ->
            Row(AbsoluteName(record.Name, zone), record.TTL \div Second, TypeCAA,
                Itoa(record.Flags) \o SPACE \o record.Tag \o SPACE
                    \o QUOTE \o record.Value \o QUOTE, 0)
      [] record.kind = "CNAME" ->
            Row(AbsoluteName(record.Name, zone), record.TTL \div Second, TypeCNAME,
                record.Target, 0)
      [] record.kind = "MX" ->
            Row(AbsoluteName(record.Name, zone), record.TTL \div Second, TypeMX,
                record.Target, record.Preference)
      [] record.kind = "NS" ->
            Row(AbsoluteName(record.Name, zone), record.TTL \div Second, TypeNS,
                record.Target, 0)
      [] record.kind = "SRV" ->
            Row(<<"_">> \o record.Service \o DOT \o <<"_">> \o record.Transport \o DOT
                    \o AbsoluteName(record.Name, zone),
                record.TTL \div Second, TypeSRV,
                Itoa(record.Weight) \o SPACE \o Itoa(record.Port) \o SPACE \o record.Target,
                record.Priority)
      [] record.kind = "TXT" ->
            Row(AbsoluteName(record.Name, zone), record.TTL \div Second, TypeTXT,
                record.Text, 0)
      [] OTHER -> UnknownRow

\* the conversion loop of addRecords / setRecords: one row per record, in order
EncodeAll(records, zone) ==
    [i \in 1..Len(records) |-> libdnsRecordToResourceRecord(records[i], zone)]

\* ------------------------------------------------------------------------
\* strconv / strings helpers of the decoder
\* ------------------------------------------------------------------------
Digits == {"0", "1", "2", "3", "4", "5", "6", "7", "8", "9"}

DigitVal(c) == CHOOSE d \in 0..9 : Digit(d) = c

\* the value of a digit string, or max + 1 as soon as it exceeds max
RECURSIVE AtoiUpTo(_, _)
AtoiUpTo(s, max) ==
    IF s = <<>> THEN 0
    ELSE LET front == AtoiUpTo(SubSeq(s, 1, Len(s) - 1), max)
             v == 10 * front + DigitVal(s[Len(s)])
         IN IF front > max \/ v > max THEN max + 1 ELSE v

\* strconv.ParseUint as it would be without the check of the bit size
ParseUintNoRange(s, max) ==
    IF s # <<>> /\ (\A i \in 1..Len(s) : s[i] \in Digits)
    THEN [ok |-> TRUE, val |-> AtoiUpTo(s, 65535)]
    ELSE [ok |-> FALSE, val |-> 0]

\* strconv.ParseUint(s, 10, bits) with max = 2^bits - 1: a non-empty digit
\* string whose value is at most max
ParseUint(s, max) ==
    IF s # <<>> /\ (\A i \in 1..Len(s) : s[i] \in Digits) /\ AtoiUpTo(s, max) <= max
    THEN [ok |-> TRUE, val |-> AtoiUpTo(s, max)]
    ELSE [ok |-> FALSE, val |-> 0]

\* strings.Fields(s): the maximal runs of non-space characters
RECURSIVE FieldsFrom(_, _, _)
FieldsFrom(s, cur, acc) ==
    IF s = <<>> THEN (IF cur = <<>> THEN acc ELSE Append(acc, cur))
    ELSE IF Head(s) = " "
         THEN FieldsFrom(Tail(s), <<>>, IF cur = <<>> THEN acc ELSE Append(acc, cur))
         ELSE FieldsFrom(Tail(s), Append(cur, Head(s)), acc)

Fields(s) == FieldsFrom(s, <<>>, <<>>)

\* strings.SplitN(s, sep, n) for a one-character sep and n >= 1
RECURSIVE SplitNFrom(_, _, _, _, _)
SplitNFrom(s, c, n, cur, acc) ==
    IF s = <<>> THEN Append(acc, cur)
    ELSE IF Head(s) = c /\ Len(acc) + 1 < n
         THEN SplitNFrom(Tail(s), c, n, <<>>, Append(acc, cur))
         ELSE SplitNFrom(Tail(s), c, n, Append(cur, Head(s)), acc)

SplitN(s, c, n) == SplitNFrom(s, c, n, <<>>, <<>>)

\* the address literals netip.ParseAddr accepts, among the values of the model
KnownAddrs == {Addr4, Addr6}

\* netip.ParseAddr(value): the address and its family (Addr.Is6)
ParseAddr(value) ==
    IF value \in KnownAddrs THEN [ok |-> TRUE, ip |-> [text |-> value, is6 |-> value = Addr6]]
    ELSE [ok |-> FALSE, ip |-> [text |-> EMPTY, is6 |-> FALSE]]

\* ------------------------------------------------------------------------
\* models.go: the decoder
\* ------------------------------------------------------------------------
Failed == [ok |-> FALSE, rec |-> [kind |-> "none"]]
Decoded(rec) == [ok |-> TRUE, rec |-> rec]

\* libdns.RR.Parse() on the types the decoder's default branch hands it: a
\* type without a richer variant is returned as the RR itself
RRParse(rr) == Decoded(rr)

\* ResourceRecord.libdnsRecord(zone)
libdnsRecord(r, zone) ==
    LET name == RelativeName(r.Name, zone)
        ttl == r.TTL * Second
    IN CASE r.Type \in {TypeA, TypeAAAA} ->
            (LET a == ParseAddr(r.Value)
             IN IF ~a.ok THEN Failed
                ELSE Decoded([kind |-> "Address", Name |-> name, TTL |-> ttl, IP |-> a.ip]))
      [] r.Type = TypeCAA ->
            (LET fields == Fields(r.Value)
             IN IF Len(fields) # 3 THEN Failed
                ELSE LET flags == ParseUint(fields[1], 255)
                     IN IF ~flags.ok THEN Failed
                        ELSE Decoded([kind |-> "CAA", Name |-> name, TTL |-> ttl,
                                      Flags |-> flags.val, Tag |-> fields[2],
                                      Value |-> Trim(fields[3], "\"")]))
      [] r.Type = TypeCNAME ->
            Decoded([kind |-> "CNAME", Name |-> name, TTL |-> ttl, Target |-> r.Value])
      [] r.Type = TypeMX ->
            Decoded([kind |-> "MX", Name |-> name, TTL |-> ttl,
                     Preference |-> r.Pref % 65536, Target |-> r.Value])
      [] r.Type = TypeNS ->
            Decoded([kind |-> "NS", Name |-> name, TTL |-> ttl, Target |-> r.Value])
      [] r.Type = TypeSRV ->
            (LET fields == Fields(r.Value)
             IN IF Len(fields) # 3 THEN Failed
                ELSE LET weight == ParseUint(fields[1], 65535)
                         port == ParseUint(fields[2], 65535)
                         parts == SplitN(r.Name, ".", 3)
                     IN IF ~weight.ok \/ ~port.ok \/ Len(parts) < 2 THEN Failed
                        ELSE Decoded([kind |-> "SRV",
                                      Service |-> TrimPrefix(parts[1], <<"_">>),
                                      Transport |-> TrimPrefix(parts[2], <<"_">>),
                                      Name |-> IF Len(parts) = 3 THEN parts[3] ELSE AT,
                                      TTL |-> r.TTL * Second,
                                      Priority |-> r.Pref % 65536,
                                      Weight |-> weight.val, Port |-> port.val,
                                      Target |-> fields[3]]))
      [] r.Type = TypeTXT ->
            Decoded([kind |-> "TXT", Name |-> name, TTL |-> ttl, Text |-> r.Value])
      [] OTHER ->
            RRParse([kind |-> "RR", Name |-> name, TTL |-> ttl, Type |-> r.Type,
                     Data |-> r.Value])

\* the conversion loop of GetRecords as it would be if it skipped a row that
\* does not convert
DecodeAllSkipBad(rows, zone) ==
    LET Good(r) == libdnsRecord(r, zone).ok
        good == SelectSeq(rows, Good)
    IN [ok |-> TRUE, records |-> [i \in 1..Len(good) |-> libdnsRecord(good[i], zone).rec]]

\* the conversion loop of GetRecords: the records of all rows, or the failure
\* of the first row that does not convert
DecodeAll(rows, zone) ==
    IF \E i \in 1..Len(rows) : ~libdnsRecord(rows[i], zone).ok
    THEN [ok |-> FALSE, records |-> <<>>]
    ELSE [ok |-> TRUE, records |-> [i \in 1..Len(rows) |-> libdnsRecord(rows[i], zone).rec]]

\* ------------------------------------------------------------------------
\* client.go: the row lists computed by addRecords / setRecords / deleteRecords
\* ------------------------------------------------------------------------
\* fmt.Sprintf("%s:%s", type, name)
Key2(type, name) == type \o COLON \o name

\* fmt.Sprintf("%s:%s:%s", type, name, value)
Key3(type, name, value) == type \o COLON \o name \o COLON \o value

\* strings.TrimSuffix(rr.Name, "."+zoneName)
ShortName(name, zoneName) == TrimSuffix(name, DOT \o zoneName)

\* addRecords as it would be if it skipped a new row equal to an existing one
AddRowsDedup(existing, newRecords) ==
    LET IsNew(rr) == \A i \in 1..Len(existing) : existing[i] # rr
    IN existing \o SelectSeq(newRecords, IsNew)

\* addRecords as it would be if it put the new rows first
AddRowsFront(existing, newRecords) == newRecords \o existing

\* addRecords: append(zoneData.ResourceRecords, newRecords...)
AddRows(existing, newRecords) == existing \o newRecords

\* recordsToReplace as it would be with the short keys alone
RecordsToReplaceShort(newRecords, zoneName) ==
    {Key2(newRecords[i].Type, ShortName(newRecords[i].Name, zoneName))
     : i \in 1..Len(newRecords)}

\* setRecords: the keys of the map recordsToReplace
RecordsToReplace(newRecords, zoneName) ==
    UNION {{Key2(newRecords[i].Type, newRecords[i].Name),
            Key2(newRecords[i].Type, ShortName(newRecords[i].Name, zoneName))}
           : i \in 1..Len(newRecords)}

\* setRecords: the rows kept by the filter loop
PreservedRecords(existing, newRecords, zoneName) ==
    LET replace == RecordsToReplace(newRecords, zoneName)
        Keep(rr) == Key2(rr.Type, rr.Name) \notin replace
    IN SelectSeq(existing, Keep)

\* setRecords: append(preservedRecords, newRecords...)
SetRows(existing, newRecords, zoneName) ==
    PreservedRecords(existing, newRecords, zoneName) \o newRecords

\* deleteRecords as it would be if it skipped a record the encoder has no
\* case for
RecordsToDeleteKnown(records, zoneName) ==
    UNION {LET rr == libdnsRecordToResourceRecord(records[i], zoneName)
           IN IF rr.Type = TypeUNKNOWN THEN {}
              ELSE {Key3(rr.Type, rr.Name, rr.Value),
                    Key3(rr.Type, ShortName(rr.Name, zoneName), rr.Value)}
           : i \in 1..Len(records)}

\* deleteRecords: the keys of the map recordsToDelete (both loops)
RecordsToDelete(records, zoneName) ==
    UNION {LET rr == libdnsRecordToResourceRecord(records[i], zoneName)
           IN {Key3(rr.Type, rr.Name, rr.Value),
               Key3(rr.Type, ShortName(rr.Name, zoneName), rr.Value)}
           : i \in 1..Len(records)}

\* deleteRecords: remainingRecords
DeleteRows(existing, records, zoneName) ==
    LET delete == RecordsToDelete(records, zoneName)
        Keep(rr) == Key3(rr.Type, rr.Name, rr.Value) \notin delete
    IN SelectSeq(existing, Keep)

\* ------------------------------------------------------------------------
\* models.go: the zone document and its JSON form
\* ------------------------------------------------------------------------
\* the zero time.Time as encoding/json writes it
ZeroTime == "0001-01-01T00:00:00Z"
ProviderTime == "2023-12-18T15:25:18.000+0100"

NilSOA == [set |-> FALSE, Refresh |-> 0, Retry |-> 0, Expire |-> 0, TTL |-> 0, Email |-> EMPTY]
SomeSOA == [set |-> TRUE, Refresh |-> 43200, Retry |-> 7200, Expire |-> 1209600, TTL |-> 86400,
            Email |-> <<"h", "@", "x">>]
SomeNameServers == <<[Name |-> <<"n", "s", "1">>, TTL |-> 86400, IPAddresses |-> <<>>]>>

\* Zone{}
ZeroZone ==
    [Created |-> ZeroTime, Updated |-> ZeroTime, Origin |-> EMPTY, SOA |-> NilSOA,
     NameServers |-> <<>>, WWWInclude |-> FALSE, VirtualNameServer |-> EMPTY,
     Action |-> EMPTY, ResourceRecords |-> <<>>, ROID |-> 0]

\* cleanZone as it would be if the copy left out the SOA as well
CleanZoneNoSOA(zoneData) ==
    [ZeroZone EXCEPT !.Origin = zoneData.Origin,
                     !.NameServers = zoneData.NameServers,
                     !.ResourceRecords = zoneData.ResourceRecords,
                     !.WWWInclude = zoneData.WWWInclude,
                     !.VirtualNameServer = zoneData.VirtualNameServer,
                     !.Action = zoneData.Action,
                     !.ROID = zoneData.ROID]

\* setZone: cleanZone, the copy of zoneData without Created and Updated
CleanZone(zoneData) ==
    [ZeroZone EXCEPT !.Origin = zoneData.Origin,
                     !.SOA = zoneData.SOA,
                     !.NameServers = zoneData.NameServers,
                     !.ResourceRecords = zoneData.ResourceRecords,
                     !.WWWInclude = zoneData.WWWInclude,
                     !.VirtualNameServer = zoneData.VirtualNameServer,
                     !.Action = zoneData.Action,
                     !.ROID = zoneData.ROID]

\* json.Marshal(Zone): keys is the set of JSON keys of the object. AutoDNSTime
\* is a struct, which omitempty never omits, and it marshals as the embedded
\* time.Time; every other field is left out when it has its zero value. A row
\* marshals to an object that unmarshals to the same row, so rows stand for
\* their JSON objects.
MarshalZone(z) ==
    [keys |-> {"created", "updated"}
              \cup (IF z.Origin # EMPTY THEN {"origin"} ELSE {})
              \cup (IF z.SOA.set THEN {"soa"} ELSE {})
              \cup (IF Len(z.NameServers) > 0 THEN {"nameServers"} ELSE {})
              \cup (IF z.WWWInclude THEN {"wwwInclude"} ELSE {})
              \cup (IF z.VirtualNameServer # EMPTY THEN {"virtualNameServer"} ELSE {})
              \cup (IF z.Action # EMPTY THEN {"action"} ELSE {})
              \cup (IF Len(z.ResourceRecords) > 0 THEN {"resourceRecords"} ELSE {})
              \cup (IF z.ROID # 0 THEN {"roid"} ELSE {}),
     created |-> z.Created, updated |-> z.Updated, origin |-> z.Origin, soa |-> z.SOA,
     nameServers |-> z.NameServers, wwwInclude |-> z.WWWInclude,
     virtualNameServer |-> z.VirtualNameServer, action |-> z.Action,
     resourceRecords |-> z.ResourceRecords, roid |-> z.ROID]

\* the body of a request that was never built
NoPayload == MarshalZone(ZeroZone)

\* ------------------------------------------------------------------------
\* The provider side and the transport
\* ------------------------------------------------------------------------
\* a zone document as the provider holds it
ProviderZone(origin, rows) ==
    [ZeroZone EXCEPT !.Created = ProviderTime, !.Updated = ProviderTime,
                     !.Origin = origin, !.SOA = SomeSOA,
                     !.NameServers = SomeNameServers,
                     !.ResourceRecords = rows, !.ROID = 4711]

\* PUT /zone/{name} as it would be if the provider added the rows of the
\* body to the rows it holds instead of replacing them
ApplyPutAdds(doc, body, clears) ==
    [doc EXCEPT
        !.ResourceRecords =
            IF "resourceRecords" \in body.keys
            THEN LET IsNew(rr) == \A i \in 1..Len(doc.ResourceRecords) :
                                     doc.ResourceRecords[i] # rr
                 IN @ \o SelectSeq(body.resourceRecords, IsNew)
            ELSE @]

\* PUT /zone/{name} at the provider: the keys of the body replace the fields
\* of the stored document, created and updated stay the provider's own; a
\* body without the key resourceRecords either leaves the rows alone or
\* clears them (clears), the client cannot tell which
ApplyPut(doc, body, clears) ==
    [doc EXCEPT
        !.Origin = IF "origin" \in body.keys THEN body.origin ELSE @,
        !.SOA = IF "soa" \in body.keys THEN body.soa ELSE @,
        !.NameServers = IF "nameServers" \in body.keys THEN body.nameServers ELSE @,
        !.WWWInclude = IF "wwwInclude" \in body.keys THEN body.wwwInclude ELSE @,
        !.VirtualNameServer =
            IF "virtualNameServer" \in body.keys THEN body.virtualNameServer ELSE @,
        !.Action = IF "action" \in body.keys THEN body.action ELSE @,
        !.ROID = IF "roid" \in body.keys THEN body.roid ELSE @,
        !.ResourceRecords =
            IF "resourceRecords" \in body.keys THEN body.resourceRecords
            ELSE IF clears THEN <<>> ELSE @]

\* An HTTP exchange as sendAPIRequest sees it: transport (client.Do failed),
\* the status code, the shape of the body (an object that unmarshals into
\* JsonResponse, a JSON array, or bytes that are not JSON), the status type
\* of the envelope and what the data carries; applied tells whether the
\* provider stored the document of a PUT.
Response(transport, http, shape, stype, data, applied) ==
    [transport |-> transport, http |-> http, shape |-> shape, stype |-> stype,
     data |-> data, applied |-> applied]

GetResponses ==
    {Response(FALSE, 200, "envelope", "SUCCESS", "zones", FALSE),
     Response(FALSE, 200, "array", "", "zones", FALSE),
     Response(TRUE, 0, "garbage", "", "none", FALSE),
     Response(FALSE, 404, "envelope", "ERROR", "none", FALSE),
     Response(FALSE, 200, "envelope", "ERROR", "none", FALSE),
     Response(FALSE, 200, "envelope", "SUCCESS", "empty", FALSE),
     Response(FALSE, 200, "envelope", "SUCCESS", "bad", FALSE),
     Response(FALSE, 500, "garbage", "", "none", FALSE)}

PutResponses ==
    {Response(FALSE, 200, "envelope", "SUCCESS", "none", TRUE),
     Response(TRUE, 0, "garbage", "", "none", FALSE),
     Response(FALSE, 400, "envelope", "ERROR", "none", FALSE),
     Response(FALSE, 200, "envelope", "ERROR", "none", FALSE),
     Response(FALSE, 502, "garbage", "", "none", FALSE)}

\* client.Do of a request whose context is done returns the context's error:
\* a request that was not sent yet is never sent, one that is in flight is
\* abandoned, and the provider has handled it or not
Unsent == {Response(TRUE, 0, "garbage", "", "none", FALSE)}
Abandoned == {Response(TRUE, 0, "garbage", "", "none", applied) : applied \in BOOLEAN}

\* http.NewRequest in place of http.NewRequestWithContext: the call does not
\* see the context
IgnoreContext(done, unsent, responses) == responses

\* the answers client.Do can return for a request made with
\* http.NewRequestWithContext(ctx, ...): done tells whether ctx is done when
\* the answer is taken, unsent whether it was done before the request left
WithContext(done, unsent, responses) ==
    IF unsent THEN Unsent
    ELSE IF done THEN Abandoned
    ELSE responses

\* sendAPIRequest(req, data): the error, and the zones decoded into data
\* when data is requested (wantData); held is the list the provider sends
\* when the response carries zones
sendAPIRequest(resp, wantData, held) ==
    LET Err == [err |-> TRUE, zones |-> <<>>]
        Ok(zs) == [err |-> FALSE, zones |-> zs]
        carried == IF resp.data = "zones" THEN held ELSE <<>>
    IN IF resp.transport THEN Err
       ELSE IF resp.shape = "envelope"
       THEN IF resp.http >= 400 THEN Err
            ELSE IF resp.stype = "ERROR" THEN Err
            ELSE IF resp.data # "none" /\ wantData
                 THEN (IF resp.data = "bad" THEN Err ELSE Ok(carried))
                 ELSE Ok(<<>>)
       ELSE IF wantData
            THEN (IF resp.shape = "array" /\ resp.data # "bad" THEN Ok(carried) ELSE Err)
            ELSE Ok(<<>>)

\* ------------------------------------------------------------------------
\* Inputs
\* ------------------------------------------------------------------------
ZoneNames == {ExampleCom}
Procs == {1, 2}
OpKinds == {"Get", "Append", "Set", "Delete"}
Mutating == {"Append", "Set", "Delete"}

RecTxt == [kind |-> "TXT", Name |-> NameTest, TTL |-> 300 * Second, Text |-> ValNew]
RecApex == [kind |-> "TXT", Name |-> AT, TTL |-> 300 * Second, Text |-> ValNew]
RecSvc == [kind |-> "ServiceBinding", Name |-> NameTest, TTL |-> 300 * Second,
           Scheme |-> <<"h", "t", "t", "p", "s">>, Priority |-> 1,
           Target |-> <<"x">>, Params |-> <<>>]

\* the records a caller passes
RecordPool == {RecTxt, RecApex, RecSvc}

RowRelOld == Row(NameTest, 300, TypeTXT, ValOld, 0)
RowAbsNew == Row(NameTestAbs, 300, TypeTXT, ValNew, 0)
RowApexRel == Row(AT, 300, TypeTXT, ValNew, 0)
RowBadAddr == Row(NameTest, 300, TypeA, NotAnAddr, 0)

\* the rows a zone document holds in the initial state
ExistingRows == {RowRelOld, RowAbsNew, RowApexRel, RowBadAddr}

SeqsUpTo(S, n) == UNION {[1..k -> S] : k \in 0..n}

\* the zone names and the record lists a caller passes
ZoneArgs == ZoneNames \cup {EMPTY}
RecordArgs == SeqsUpTo(RecordPool, MaxRecs)

DefaultEndpoint == "https://api.autodns.com/v1"
DefaultContext == "4"

\* the exported fields of a Provider before its first call
Configs ==
    {[Username |-> "user", Password |-> "secret", Context |-> "", Endpoint |-> ""],
     [Username |-> "", Password |-> "secret", Context |-> "", Endpoint |-> ""],
     [Username |-> "user", Password |-> "", Context |-> "1", Endpoint |-> "https://demo"]}

\* ------------------------------------------------------------------------
\* State
\* ------------------------------------------------------------------------
VARIABLES
    server,       \* the provider: zone name -> zone document
    cfg,          \* Provider.Username, Password, Context, Endpoint
    initialized,  \* Provider.initialized
    zones,        \* Provider.zones, the cache: zone name -> Zone
    zonesMutex,   \* Provider.zonesMutex: 0 when free, else the holder
    callers,      \* the goroutines that call the provider
    pc,           \* where each caller is in its operation
    call,         \* the operation, zone and records of each caller
    zoneData,     \* the local zoneData of each caller's operation
    result,       \* what the operation returns
    obs,          \* per operation: the requests issued and states observed
    last,         \* how the operation that returned last ended, until the next call
    cancelled,    \* per caller: the ctx of its operation is done
    heap          \* the backing arrays of the ResourceRecords slices

vars == <<server, cfg, initialized, zones, zonesMutex, callers, pc, call, zoneData,
          result, obs, last, cancelled, heap>>

NoCall == [kind |-> "Get", zone |-> EMPTY, records |-> <<>>]
NoResult == [status |-> "none", err |-> "none", records |-> <<>>]
Ok(records) == [status |-> "ok", err |-> "none", records |-> records]
Error(err) == [status |-> "error", err |-> err, records |-> <<>>]

NoResponse == Response(FALSE, 0, "none", "", "none", FALSE)

\* reqs: the HTTP methods issued, in order; getResp: the answer to the GET;
\* got: getZone returned a zone, snapshot: that zone, fromCache: it was a
\* cache hit; sent: a PUT was issued, payload: its body, putResp: the answer
\* to it; cacheBefore: the cache when the operation was called; after: for
\* GetRecords, how the operation before it ended; before: the provider's
\* document of the zone when the operation was called; unsent: ctx was done
\* before the PUT left; aborted: the calls ("GET", "PUT") that ended because
\* ctx was done; over: the callers whose stored write this operation's write
\* replaced; fetchedAfter: the callers whose write the provider had stored
\* when it answered the GET
NoObs ==
    [reqs |-> <<>>, getResp |-> NoResponse, got |-> FALSE, snapshot |-> ZeroZone,
     fromCache |-> FALSE, sent |-> FALSE, payload |-> NoPayload,
     putResp |-> NoResponse, cacheBefore |-> <<>>, after |-> "other",
     before |-> ZeroZone, unsent |-> FALSE, aborted |-> {}, over |-> {},
     fetchedAfter |-> {}]

\* ------------------------------------------------------------------------
\* Go slices: the arrays behind Zone.ResourceRecords
\* ------------------------------------------------------------------------
\* A Zone is passed by value but its ResourceRecords is a slice header: the
\* zone in the cache and the zoneData of every operation that was handed it
\* point into one array. The rows json.Unmarshal decoded are never written
\* again; the cells behind them are written by append when they have room
\* for the new rows. heap.cached: the array of each cache entry; heap.held:
\* the array into which a caller's addRecords has appended in place, 0 when
\* it did not; heap.cells: the rows in the spare cells of each array while a
\* caller holds it (what stays there afterwards is never read).
ArrayIds == 1..(2 * Cardinality(Procs))

NoHeap ==
    [cached |-> <<>>, held |-> [p \in Procs |-> 0], cells |-> [a \in ArrayIds |-> <<>>]]

\* reflect.Value.Grow(1), called by the array decoder of encoding/json each
\* time the slice is full: the capacity doubles (rows are 80 bytes, and 80,
\* 160, 320 and 640 bytes are allocation sizes of the runtime)
RECURSIVE GrowTo(_, _)
GrowTo(c, n) == IF n <= c THEN c ELSE GrowTo(IF c = 0 THEN 1 ELSE 2 * c, n)

\* cap(zone.ResourceRecords) after json.Unmarshal decoded n rows
DecodedCap(n) == GrowTo(0, n)

\* append(zoneData.ResourceRecords, newRecords...) writes into the array it
\* was handed when the array has room, else it copies into a new one
InPlace(kind, existing, records) ==
    /\ kind = "Append"
    /\ Len(records) > 0
    /\ Len(existing) + Len(records) <= DecodedCap(Len(existing))

\* the spare cells after rows were written to the first of them
WriteCells(cells, rows) == rows \o SubSeq(cells, Len(rows) + 1, Len(cells))

\* the arrays that the cache or a caller points to
LiveArrays(h) ==
    {h.cached[z] : z \in DOMAIN h.cached} \cup ({h.held[p] : p \in Procs} \ {0})

\* the array json.Unmarshal allocates
FreshArray(h) == CHOOSE a \in ArrayIds \ LiveArrays(h) :
                     \A b \in ArrayIds \ LiveArrays(h) : a <= b

\* the heap once the operation c was handed the document whose rows
\* existing are in array a
HeapAfterGetZone(h, p, c, a, existing) ==
    IF InPlace(c.kind, existing, c.records)
    THEN [h EXCEPT !.held[p] = a,
                   !.cells[a] = WriteCells(@, EncodeAll(c.records, c.zone))]
    ELSE h

\* zoneData.ResourceRecords as json.Marshal reads it: the rows the operation
\* was handed and, after an append in place, what the cells behind them hold
LiveRows(h, p, c, rows) ==
    IF h.held[p] = 0 THEN rows
    ELSE SubSeq(rows, 1, Len(rows) - Len(c.records))
             \o SubSeq(h.cells[h.held[p]], 1, Len(c.records))

\* the heap once p's zoneData is no longer read
Release(h, p) ==
    LET a == h.held[p]
        g == [h EXCEPT !.held[p] = 0]
    IN IF a # 0 /\ (\A q \in Procs : g.held[q] # a)
       THEN [g EXCEPT !.cells[a] = <<>>]
       ELSE g

\* the starting state but for the provider's documents, the configuration
\* and the callers
InitLocal ==
    /\ heap = NoHeap
    /\ initialized = FALSE
    /\ zones = <<>>
    /\ zonesMutex = 0
    /\ pc = [p \in Procs |-> "idle"]
    /\ call = [p \in Procs |-> NoCall]
    /\ zoneData = [p \in Procs |-> ZeroZone]
    /\ result = [p \in Procs |-> NoResult]
    /\ obs = [p \in Procs |-> NoObs]
    /\ last = "other"
    /\ cancelled = [p \in Procs |-> FALSE]

Init ==
    /\ server \in [ZoneNames -> {ProviderZone(ExampleCom, rows) :
                                    rows \in SeqsUpTo(ExistingRows, MaxInitRows)}]
    /\ cfg \in Configs
    /\ callers = {1}
    /\ InitLocal

\* ------------------------------------------------------------------------
\* provider.go
\* ------------------------------------------------------------------------
\* ensureInitialized as it would be if it set the defaults without looking
\* at the fields
ensureInitializedOverwrites(c, init) ==
    IF init THEN [cfg |-> c, initialized |-> TRUE, ok |-> TRUE]
    ELSE LET d == [c EXCEPT !.Endpoint = DefaultEndpoint, !.Context = DefaultContext]
         IN IF d.Username = "" \/ d.Password = ""
            THEN [cfg |-> d, initialized |-> FALSE, ok |-> FALSE]
            ELSE [cfg |-> d, initialized |-> TRUE, ok |-> TRUE]

\* ensureInitialized: the fields it leaves and whether it returned nil
ensureInitialized(c, init) ==
    IF init THEN [cfg |-> c, initialized |-> TRUE, ok |-> TRUE]
    ELSE LET d == [c EXCEPT !.Endpoint = IF @ = "" THEN DefaultEndpoint ELSE @,
                            !.Context = IF @ = "" THEN DefaultContext ELSE @]
         IN IF d.Username = "" \/ d.Password = ""
            THEN [cfg |-> d, initialized |-> FALSE, ok |-> FALSE]
            ELSE [cfg |-> d, initialized |-> TRUE, ok |-> TRUE]

\* the argument checks without the check of the record list
ValidateZoneOnly(kind, zone, records) ==
    IF zone = EMPTY THEN "zone name is required" ELSE "none"

\* the checks of GetRecords / AppendRecords / SetRecords / DeleteRecords
\* after ensureInitialized: the error they return, or "none"
Validate(kind, zone, records) ==
    IF zone = EMPTY THEN "zone name is required"
    ELSE IF kind \in Mutating /\ Len(records) = 0 THEN "at least one record is required"
    ELSE "none"

\* the row list an operation writes, from the rows getZone returned
NewRows(kind, existing, records, zoneName) ==
    CASE kind = "Append" -> AddRows(existing, EncodeAll(records, zoneName))
      [] kind = "Set" -> SetRows(existing, EncodeAll(records, zoneName), zoneName)
      [] kind = "Delete" -> DeleteRows(existing, records, zoneName)
      [] OTHER -> existing

\* the records a successful operation returns
Returned(kind, records) == records

\* A caller enters GetRecords, AppendRecords, SetRecords or DeleteRecords
\* (one of kinds) with a zone name of names and a record list of lists:
\* ensureInitialized and the argument checks. No zone grows beyond limit rows.
CallWith(p, kinds, names, lists, limit) ==
    /\ p \in callers
    /\ pc[p] = "idle"
    /\ \E kind \in kinds, zone \in names, records \in lists :
        /\ kind = "Get" => records = <<>>
        /\ (zone \in DOMAIN server /\ kind \in {"Append", "Set"}) =>
              /\ Len(server[zone].ResourceRecords) + Len(records) <= limit
              /\ zone \in DOMAIN zones =>
                    Len(zones[zone].ResourceRecords) + Len(records) <= limit
        /\ LET e == ensureInitialized(cfg, initialized)
               err == IF ~e.ok THEN "credentials are required"
                      ELSE Validate(kind, zone, records)
           IN /\ cfg' = e.cfg
              /\ initialized' = e.initialized
              /\ call' = [call EXCEPT ![p] = [kind |-> kind, zone |-> zone,
                                               records |-> records]]
              /\ obs' = [obs EXCEPT ![p] =
                            [NoObs EXCEPT !.cacheBefore = zones,
                                          !.after = IF kind = "Get" THEN last ELSE "other",
                                          !.before = IF zone \in DOMAIN server THEN server[zone]
                                                     ELSE ZeroZone]]
              /\ last' = "other"
              /\ IF err # "none"
                 THEN /\ pc' = [pc EXCEPT ![p] = "done"]
                      /\ result' = [result EXCEPT ![p] = Error(err)]
                 ELSE /\ pc' = [pc EXCEPT ![p] = "getZone"]
                      /\ result' = [result EXCEPT ![p] = NoResult]
    /\ UNCHANGED <<server, zones, zonesMutex, callers, zoneData, cancelled, heap>>

CallOf(p, kinds, names, lists) == CallWith(p, kinds, names, lists, MaxRows)

Call(p) == CallOf(p, OpKinds, ZoneArgs, RecordArgs)

\* The caller cancels the ctx of its running operation.
Cancel(p) ==
    /\ pc[p] \in {"getZone", "fetch", "setZone", "put"}
    /\ ~cancelled[p]
    /\ cancelled' = [cancelled EXCEPT ![p] = TRUE]
    /\ UNCHANGED <<server, cfg, initialized, zones, zonesMutex, callers, pc, call,
                   zoneData, result, obs, last, heap>>

\* ------------------------------------------------------------------------
\* client.go
\* ------------------------------------------------------------------------
\* What the operation does once getZone has returned doc: GetRecords converts
\* the rows and returns; addRecords / setRecords / deleteRecords compute the
\* new row list into their local zoneData and go on to setZone.
AfterGetZone(p, doc, o) ==
    LET c == call[p]
    IN /\ obs' = [obs EXCEPT ![p] = [o EXCEPT !.got = TRUE, !.snapshot = doc]]
       /\ IF c.kind = "Get"
          THEN LET dec == DecodeAll(doc.ResourceRecords, c.zone)
               IN /\ result' = [result EXCEPT ![p] =
                                   IF dec.ok THEN Ok(dec.records)
                                   ELSE Error("failed to convert resource record")]
                  /\ zoneData' = [zoneData EXCEPT ![p] = doc]
                  /\ pc' = [pc EXCEPT ![p] = "done"]
          ELSE /\ zoneData' = [zoneData EXCEPT ![p] =
                                  [doc EXCEPT !.ResourceRecords =
                                      NewRows(c.kind, @, c.records, c.zone)]]
               /\ pc' = [pc EXCEPT ![p] = "setZone"]
               /\ UNCHANGED result

\* getZone as it would be without p.zonesMutex.Lock()
LockNot(mutex, p) == mutex

\* sync.Mutex: the mutex after p's Lock() returned
Lock(mutex, p) == p

\* getZone as it would be if it unlocked only before it returns a zone
UnlockOnSuccess(mutex, p, failed) == IF failed THEN mutex ELSE 0

\* sync.Mutex: the mutex after the deferred Unlock() of getZone, which runs
\* whether getZone failed or not
Unlock(mutex, p, failed) == 0

\* getZone takes zonesMutex and looks the zone up: on a hit it returns the
\* cached zone and releases the mutex, on a miss it issues the GET while it
\* holds the mutex.
GetZone(p) ==
    /\ pc[p] = "getZone"
    /\ zonesMutex = 0
    /\ IF call[p].zone \in DOMAIN zones
       THEN /\ AfterGetZone(p, zones[call[p].zone], [obs[p] EXCEPT !.fromCache = TRUE])
            /\ heap' = HeapAfterGetZone(heap, p, call[p], heap.cached[call[p].zone],
                                        zones[call[p].zone].ResourceRecords)
            /\ UNCHANGED zonesMutex
       ELSE /\ zonesMutex' = Lock(zonesMutex, p)
            /\ pc' = [pc EXCEPT ![p] = "fetch"]
            /\ obs' = [obs EXCEPT ![p].reqs = Append(@, "GET")]
            /\ UNCHANGED <<zoneData, result, heap>>
    /\ UNCHANGED <<server, cfg, initialized, zones, callers, call, last, cancelled>>

\* getZone as it would be if it went on with an empty zone when the list is empty
FirstZoneOrEmpty(zs) ==
    IF Len(zs) > 0 THEN [ok |-> TRUE, zone |-> zs[1]] ELSE [ok |-> TRUE, zone |-> ZeroZone]

\* the zone getZone takes from the decoded list, or the failure of an empty list
FirstZone(zs) ==
    IF Len(zs) > 0 THEN [ok |-> TRUE, zone |-> zs[1]] ELSE [ok |-> FALSE, zone |-> ZeroZone]

\* getZone as it would be if it returned the fetched zone without caching it
StoreZoneNot(cache, zoneName, zone) == cache

\* the cache after getZone stored the fetched zone
StoreZone(cache, zoneName, zone) ==
    [k \in DOMAIN cache \cup {zoneName} |-> IF k = zoneName THEN zone ELSE cache[k]]

\* setZone as it would be if it emptied the cache
DropZoneAll(cache, zoneName) == [k \in {} |-> cache[k]]

\* setZone as it would be if it left the cache alone
DropZoneKeep(cache, zoneName) == cache

\* the cache after setZone's delete(p.zones, zoneName)
DropZone(cache, zoneName) ==
    [k \in DOMAIN cache \ {zoneName} |-> cache[k]]

\* the calls of an operation that ended because its ctx was done
Aborted(o, method, done) == IF done THEN o.aborted \cup {method} ELSE o.aborted

\* The GET of getZone is answered with one of responses: an error or an
\* empty list fails the operation, otherwise the first zone is cached and
\* returned; the deferred Unlock runs on every path.
FetchOf(p, responses) ==
    /\ pc[p] = "fetch"
    /\ zonesMutex = p
    /\ \E resp \in WithContext(cancelled[p], FALSE, responses) :
        LET r == sendAPIRequest(resp, TRUE, <<server[call[p].zone]>>)
            f == FirstZone(r.zones)
            o == [obs[p] EXCEPT !.getResp = resp,
                                !.aborted = Aborted(obs[p], "GET", cancelled[p]),
                                !.fetchedAfter = {q \in Procs : obs[q].putResp.applied}]
        IN /\ zonesMutex' = Unlock(zonesMutex, p, r.err \/ ~f.ok)
           /\ IF r.err \/ ~f.ok
              THEN /\ result' = [result EXCEPT ![p] = Error("failed to get zone")]
                   /\ pc' = [pc EXCEPT ![p] = "done"]
                   /\ obs' = [obs EXCEPT ![p] = o]
                   /\ UNCHANGED <<zones, zoneData, heap>>
              ELSE /\ zones' = StoreZone(zones, call[p].zone, f.zone)
                   /\ heap' = LET a == FreshArray(heap)
                              IN HeapAfterGetZone(
                                     [heap EXCEPT !.cached = StoreZone(@, call[p].zone, a)],
                                     p, call[p], a, f.zone.ResourceRecords)
                   /\ AfterGetZone(p, f.zone, o)
    /\ UNCHANGED <<server, cfg, initialized, callers, call, last, cancelled>>

Fetch(p) == FetchOf(p, GetResponses)

\* setZone marshals cleanZone and hands the PUT to sendAPIRequest.
SetZone(p) ==
    /\ pc[p] = "setZone"
    /\ pc' = [pc EXCEPT ![p] = "put"]
    /\ obs' = [obs EXCEPT ![p].reqs = Append(@, "PUT"),
                          ![p].sent = TRUE,
                          ![p].payload =
                              MarshalZone(CleanZone(
                                  [zoneData[p] EXCEPT !.ResourceRecords =
                                      LiveRows(heap, p, call[p], @)])),
                          ![p].unsent = cancelled[p]]
    /\ heap' = Release(heap, p)
    /\ UNCHANGED <<server, cfg, initialized, zones, zonesMutex, callers, call, zoneData,
                   result, last, cancelled>>

\* the callers whose write of the zone the provider holds when p's arrives
Overwritten(p) ==
    {q \in Procs \ {p} : obs[q].putResp.applied /\ call[q].zone = call[p].zone}

\* The PUT of setZone is answered with one of responses: the provider has
\* stored the document or not, and sendAPIRequest classifies the response.
UpdateOf(p, responses) ==
    /\ pc[p] = "put"
    /\ \E resp \in WithContext(cancelled[p], obs[p].unsent, responses), clears \in BOOLEAN :
        LET r == sendAPIRequest(resp, FALSE, <<>>)
        IN /\ server' = IF resp.applied
                        THEN [server EXCEPT ![call[p].zone] =
                                 ApplyPut(@, obs[p].payload, clears)]
                        ELSE server
           /\ obs' = [obs EXCEPT ![p].putResp = resp,
                                 ![p].aborted = Aborted(obs[p], "PUT", cancelled[p]),
                                 ![p].over = IF resp.applied THEN Overwritten(p) ELSE {}]
           /\ IF r.err
              THEN /\ result' = [result EXCEPT ![p] = Error("failed to update zone")]
                   /\ pc' = [pc EXCEPT ![p] = "done"]
              ELSE /\ pc' = [pc EXCEPT ![p] = "invalidate"]
                   /\ UNCHANGED result
    /\ UNCHANGED <<cfg, initialized, zones, zonesMutex, callers, call, zoneData, last,
                   cancelled, heap>>

Update(p) == UpdateOf(p, PutResponses)

\* setZone, after a PUT without error: Lock, delete(p.zones, zoneName),
\* Unlock; the operation then returns its records.
Invalidate(p) ==
    /\ pc[p] = "invalidate"
    /\ zonesMutex = 0
    /\ zones' = DropZone(zones, call[p].zone)
    /\ heap' = [heap EXCEPT !.cached = DropZone(@, call[p].zone)]
    /\ result' = [result EXCEPT ![p] = Ok(Returned(call[p].kind, call[p].records))]
    /\ pc' = [pc EXCEPT ![p] = "done"]
    /\ UNCHANGED <<server, cfg, initialized, zonesMutex, callers, call, zoneData, obs, last,
                   cancelled>>

\* how an operation that returned is remembered by the next one
Outcome(kind, res, o) ==
    IF kind \in Mutating /\ res.status = "ok" THEN "mutated"
    ELSE IF kind \in Mutating /\ o.sent THEN "writeFailed"
    ELSE "other"

\* The caller takes the result; its locals are gone.
Return(p) ==
    /\ pc[p] = "done"
    /\ last' = Outcome(call[p].kind, result[p], obs[p])
    /\ pc' = [pc EXCEPT ![p] = "idle"]
    /\ call' = [call EXCEPT ![p] = NoCall]
    /\ zoneData' = [zoneData EXCEPT ![p] = ZeroZone]
    /\ result' = [result EXCEPT ![p] = NoResult]
    /\ obs' = [obs EXCEPT ![p] = NoObs]
    /\ cancelled' = [cancelled EXCEPT ![p] = FALSE]
    /\ UNCHANGED <<server, cfg, initialized, zones, zonesMutex, callers, heap>>

Next ==
    \E p \in Procs :
        \/ Call(p)
        \/ GetZone(p)
        \/ Fetch(p)
        \/ SetZone(p)
        \/ Update(p)
        \/ Invalidate(p)
        \/ Return(p)

Spec == Init /\ [][Next]_vars

\* ------------------------------------------------------------------------
\* Two calls in a row: caller 2 calls the operation caller 1 called, after
\* that call returned without error
\* ------------------------------------------------------------------------
ValidConfig == [Username |-> "user", Password |-> "secret", Context |-> "", Endpoint |-> ""]

TwiceKinds == {"Append", "Set"}
TwiceLists == SeqsUpTo(RecordPool, MaxRecs) \ {<<>>}
FewGetResponses ==
    {r \in GetResponses : r.transport \/ (r.shape = "envelope" /\ r.data = "zones")}
FewPutResponses == {r \in PutResponses : r.transport \/ r.applied}

InitTwice ==
    /\ server \in [ZoneNames -> {ProviderZone(ExampleCom, rows) :
                                    rows \in SeqsUpTo(ExistingRows, MaxInitRows)}]
    /\ cfg = ValidConfig
    /\ callers = {1, 2}
    /\ InitLocal

CallFirst == CallOf(1, TwiceKinds, ZoneNames, TwiceLists)

CallSecond ==
    /\ pc[1] = "done"
    /\ result[1].status = "ok"
    /\ CallOf(2, {call[1].kind}, ZoneNames, TwiceLists)

FetchFew(p) == FetchOf(p, FewGetResponses)

UpdateFew(p) == UpdateOf(p, FewPutResponses)

NextTwice ==
    \/ CallFirst
    \/ CallSecond
    \/ \E p \in Procs :
          \/ GetZone(p)
          \/ FetchFew(p)
          \/ SetZone(p)
          \/ UpdateFew(p)
          \/ Invalidate(p)

SpecTwice == InitTwice /\ [][NextTwice]_vars

\* ------------------------------------------------------------------------
\* Two goroutines call the provider at the same time, each once
\* ------------------------------------------------------------------------
ConcLists == {<<RecTxt>>, <<RecApex>>}
ConcRows == {<<>>, <<RowRelOld>>}

InitConc ==
    /\ server \in [ZoneNames -> {ProviderZone(ExampleCom, rows) : rows \in ConcRows}]
    /\ cfg = ValidConfig
    /\ callers = Procs
    /\ InitLocal

CallConc(p) == CallOf(p, OpKinds, ZoneNames, ConcLists)

NextConc ==
    \E p \in Procs :
        \/ CallConc(p)
        \/ GetZone(p)
        \/ FetchFew(p)
        \/ SetZone(p)
        \/ UpdateFew(p)
        \/ Invalidate(p)

SpecConc == InitConc /\ [][NextConc]_vars

\* a step of the operation caller p has begun
Step(p) ==
    \/ GetZone(p)
    \/ FetchFew(p)
    \/ SetZone(p)
    \/ UpdateFew(p)
    \/ Invalidate(p)

\* The two goroutines under a fair scheduler: a goroutine that can run does
\* run, a goroutine waiting in Lock() gets the mutex once it stays free, and
\* the transport answers every request with a response or an error.
SpecLive == InitConc /\ [][NextConc]_vars /\ \A p \in Procs : WF_vars(Step(p))

\* ------------------------------------------------------------------------
\* One caller that may cancel the ctx of its running operation
\* ------------------------------------------------------------------------
InitCancel ==
    /\ server \in [ZoneNames -> {ProviderZone(ExampleCom, rows) : rows \in ConcRows}]
    /\ cfg = ValidConfig
    /\ callers = {1}
    /\ InitLocal

CallCancel(p) == CallOf(p, OpKinds, ZoneNames, ConcLists)

NextCancel ==
    \E p \in Procs :
        \/ CallCancel(p)
        \/ Cancel(p)
        \/ GetZone(p)
        \/ Fetch(p)
        \/ SetZone(p)
        \/ Update(p)
        \/ Invalidate(p)
        \/ Return(p)

SpecCancel == InitCancel /\ [][NextCancel]_vars

\* ------------------------------------------------------------------------
\* The record codec through the provider: caller 1 appends one record,
\* caller 2 reads the zone, one after the other
\* ------------------------------------------------------------------------
TypeHTTPS == <<"H", "T", "T", "P", "S">>
TypeSVCB == <<"S", "V", "C", "B">>
TypePTR == <<"P", "T", "R">>
ExampleNet == <<"e", "x", "a", "m", "p", "l", "e", ".", "n", "e", "t">>
NameSub == <<"s", "u", "b">>
NameWww == <<"w", "w", "w">>
LetsEncrypt == <<"l", "e", "t", "s", "e", "n", "c", "r", "y", "p", "t", ".", "o", "r", "g">>
TagIssue == <<"i", "s", "s", "u", "e">>
SvcSip == <<"s", "i", "p">>
ProtoTcp == <<"t", "c", "p">>
SchemeHttps == <<"h", "t", "t", "p", "s">>
SchemeDns == <<"d", "n", "s">>
KeyAlpn == <<"a", "l", "p", "n">>
ValH2 == <<"h", "2">>
ValH3 == <<"h", "3">>
AcmeChallenge == <<"_", "a", "c", "m", "e", "-", "c", "h", "a", "l", "l", "e", "n", "g", "e">>
AcmeConfig == <<"_", "a", "c", "m", "e", "-", "c", "h", "a", "l", "l", "e", "n", "g", "e", ".", "c", "o", "n", "f", "i", "g">>
Token == <<"t", "o", "k", "e", "n">>
SrvNameAbs == <<"_", "s", "i", "p", ".", "_", "t", "c", "p", ".", "s", "u", "b", ".", "e", "x", "a", "m", "p", "l", "e", ".", "c", "o", "m">>
SrvNameRel == <<"_", "s", "i", "p", ".", "_", "t", "c", "p", ".", "s", "u", "b">>
SrvNameBare == <<"_", "s", "i", "p", ".", "_", "t", "c", "p">>
SrvNameOneLabel == <<"_", "s", "i", "p">>
SrvValue == <<"1", "0", " ", "5", "0", "6", "0", " ", "e", "x", "a", "m", "p", "l", "e", ".", "n", "e", "t">>
SrvValueTwoFields == <<"1", "0", " ", "5", "0", "6", "0">>
SrvValueFourFields == <<"1", " ", "1", "0", " ", "5", "0", "6", "0", " ", "e", "x", "a", "m", "p", "l", "e", ".", "n", "e", "t">>
SrvValueBadPort == <<"1", "0", " ", "6", "5", "5", "3", "6", " ", "e", "x", "a", "m", "p", "l", "e", ".", "n", "e", "t">>
CaaValue == <<"0", " ", "i", "s", "s", "u", "e", " ", "\"", "l", "e", "t", "s", "e", "n", "c", "r", "y", "p", "t", ".", "o", "r", "g", "\"">>
CaaValueTwoFields == <<"0", " ", "i", "s", "s", "u", "e">>
CaaValue255 == <<"2", "5", "5", " ", "i", "s", "s", "u", "e", " ", "\"", "l", "e", "t", "s", "e", "n", "c", "r", "y", "p", "t", ".", "o", "r", "g", "\"">>
CaaValue256 == <<"2", "5", "6", " ", "i", "s", "s", "u", "e", " ", "\"", "l", "e", "t", "s", "e", "n", "c", "r", "y", "p", "t", ".", "o", "r", "g", "\"">>
CaaValueNoNumber == <<"x", " ", "i", "s", "s", "u", "e", " ", "\"", "l", "e", "t", "s", "e", "n", "c", "r", "y", "p", "t", ".", "o", "r", "g", "\"">>
CaaValueWide == <<"0", " ", " ", "i", "s", "s", "u", "e", " ", " ", " ", "\"", "l", "e", "t", "s", "e", "n", "c", "r", "y", "p", "t", ".", "o", "r", "g", "\"">>
CaaValueFourFields == <<"0", " ", "i", "s", "s", "u", "e", " ", "\"", "l", "e", "t", "s", "e", "n", "c", "r", "y", "p", "t", ".", "o", "r", "g", "\"", " ", "x">>
SvcValue == <<"1", " ", "e", "x", "a", "m", "p", "l", "e", ".", "n", "e", "t", " ", "a", "l", "p", "n", "=", "h", "2", " ", "a", "l", "p", "n", "=", "h", "3">>
SvcValuePlain == <<"1", " ", "x">>

RecA4 == [kind |-> "Address", Name |-> NameTest, TTL |-> 300 * Second,
          IP |-> [text |-> Addr4, is6 |-> FALSE]]
RecA6 == [kind |-> "Address", Name |-> NameTest, TTL |-> 300 * Second,
          IP |-> [text |-> Addr6, is6 |-> TRUE]]
RecCaa == [kind |-> "CAA", Name |-> NameTest, TTL |-> 300 * Second, Flags |-> 0,
           Tag |-> TagIssue, Value |-> LetsEncrypt]
RecCname == [kind |-> "CNAME", Name |-> NameWww, TTL |-> 300 * Second, Target |-> ExampleNet]
RecMx == [kind |-> "MX", Name |-> AT, TTL |-> 300 * Second, Preference |-> 10,
          Target |-> ExampleNet]
RecNs == [kind |-> "NS", Name |-> NameSub, TTL |-> 300 * Second, Target |-> ExampleNet]
RecSrv == [kind |-> "SRV", Service |-> SvcSip, Transport |-> ProtoTcp, Name |-> NameSub,
           TTL |-> 300 * Second, Priority |-> 1, Weight |-> 10, Port |-> 5060,
           Target |-> ExampleNet]
RecSrvApex == [RecSrv EXCEPT !.Name = AT]
RecTxtFraction == [RecTxt EXCEPT !.TTL = 1500]
RecSvcAlpn == [kind |-> "ServiceBinding", Name |-> NameTest, TTL |-> 300 * Second,
               Scheme |-> SchemeHttps, Priority |-> 1, Target |-> ExampleNet,
               Params |-> <<[key |-> KeyAlpn, values |-> <<ValH2, ValH3>>]>>]
RecSvcDns == [RecSvc EXCEPT !.Scheme = SchemeDns]
RecRR == [kind |-> "RR", Name |-> AcmeChallenge, TTL |-> 60 * Second, Type |-> TypeTXT,
          Data |-> Token]
RecRRQualified == [RecRR EXCEPT !.Name = AcmeConfig \o DOT \o ExampleCom]
RecRRAddr == [kind |-> "RR", Name |-> NameWww, TTL |-> 300 * Second, Type |-> TypeA,
              Data |-> Addr4]

\* the records caller 1 appends, one per call
CodecRecords ==
    {RecA4, RecA6, RecCaa, RecCname, RecMx, RecNs, RecSrv, RecSrvApex, RecTxt, RecApex,
     RecTxtFraction, RecSvc, RecSvcAlpn, RecSvcDns, RecRR, RecRRQualified, RecRRAddr}
CodecLists == {<<r>> : r \in CodecRecords}
NoRecords == {<<>>}

RowSrvAbs == Row(SrvNameAbs, 300, TypeSRV, SrvValue, 1)
RowSrvRel == Row(SrvNameRel, 300, TypeSRV, SrvValue, 1)
RowSrvBare == Row(SrvNameBare, 300, TypeSRV, SrvValue, 1)
RowSrvOneLabel == Row(SrvNameOneLabel, 300, TypeSRV, SrvValue, 1)
RowSrvTwoFields == Row(SrvNameAbs, 300, TypeSRV, SrvValueTwoFields, 1)
RowSrvFourFields == Row(SrvNameAbs, 300, TypeSRV, SrvValueFourFields, 1)
RowSrvBadPort == Row(SrvNameAbs, 300, TypeSRV, SrvValueBadPort, 1)
RowCaa == Row(NameTestAbs, 300, TypeCAA, CaaValue, 0)
RowCaaTwoFields == Row(NameTestAbs, 300, TypeCAA, CaaValueTwoFields, 0)
RowCaa255 == Row(NameTestAbs, 300, TypeCAA, CaaValue255, 0)
RowCaa256 == Row(NameTestAbs, 300, TypeCAA, CaaValue256, 0)
RowCaaNoNumber == Row(NameTestAbs, 300, TypeCAA, CaaValueNoNumber, 0)
RowCaaWide == Row(NameTestAbs, 300, TypeCAA, CaaValueWide, 0)
RowCaaFourFields == Row(NameTestAbs, 300, TypeCAA, CaaValueFourFields, 0)
RowA4Abs == Row(NameTestAbs, 300, TypeA, Addr4, 0)
RowA6Rel == Row(NameTest, 300, TypeAAAA, Addr6, 0)
RowApexAbs == Row(ExampleCom, 300, TypeTXT, ValNew, 0)
RowCname == Row(NameWww \o DOT \o ExampleCom, 300, TypeCNAME, ExampleNet, 0)
RowMx == Row(ExampleCom, 300, TypeMX, ExampleNet, 10)
RowNs == Row(NameSub \o DOT \o ExampleCom, 300, TypeNS, ExampleNet, 0)
RowPtr == Row(NameTestAbs, 300, TypePTR, ExampleNet, 0)

SrvRows ==
    {RowSrvAbs, RowSrvRel, RowSrvBare, RowSrvOneLabel, RowSrvTwoFields, RowSrvFourFields,
     RowSrvBadPort}
CaaRows ==
    {RowCaa, RowCaaTwoFields, RowCaa255, RowCaa256, RowCaaNoNumber, RowCaaWide,
     RowCaaFourFields}

\* the rows the zone document holds when the calls begin, at most one
CodecRows ==
    SrvRows \cup CaaRows \cup
    {RowA4Abs, RowA6Rel, RowBadAddr, RowRelOld, RowAbsNew, RowApexRel, RowApexAbs,
     RowCname, RowMx, RowNs, RowPtr, UnknownRow}
CodecDocs == {<<>>} \cup {<<r>> : r \in CodecRows}

InitCodec ==
    /\ server \in [ZoneNames -> {ProviderZone(ExampleCom, rows) : rows \in CodecDocs}]
    /\ cfg = ValidConfig
    /\ callers = Procs
    /\ InitLocal

\* AppendRecords(ctx, zone, []libdns.Record{r}) by caller 1
CallAppend ==
    /\ pc[2] \in {"idle", "done"}
    /\ CallOf(1, {"Append"}, ZoneNames, CodecLists)

\* GetRecords(ctx, zone) by caller 2
CallGet ==
    /\ pc[1] \in {"idle", "done"}
    /\ CallOf(2, {"Get"}, ZoneNames, NoRecords)

NextCodec ==
    \/ CallAppend
    \/ CallGet
    \/ \E p \in Procs :
          \/ GetZone(p)
          \/ FetchFew(p)
          \/ SetZone(p)
          \/ UpdateFew(p)
          \/ Invalidate(p)

SpecCodec == InitCodec /\ [][NextCodec]_vars

\* ------------------------------------------------------------------------
\* One caller, with the configurations a caller can construct
\* ------------------------------------------------------------------------
CallerConfigs ==
    {[Username |-> "user", Password |-> "secret", Context |-> c, Endpoint |-> e] :
        c \in {"", "1"}, e \in {"", "https://demo"}}
    \cup {[Username |-> "", Password |-> "secret", Context |-> "1", Endpoint |-> ""],
          [Username |-> "user", Password |-> "", Context |-> "", Endpoint |-> "https://demo"]}

InitConfig ==
    /\ server \in [ZoneNames -> {ProviderZone(ExampleCom, rows) : rows \in ConcRows}]
    /\ cfg \in CallerConfigs
    /\ callers = {1}
    /\ InitLocal

CallConfig(p) == CallOf(p, OpKinds, ZoneArgs, ConcLists)

NextConfig ==
    \E p \in Procs :
        \/ CallConfig(p)
        \/ GetZone(p)
        \/ FetchFew(p)
        \/ SetZone(p)
        \/ UpdateFew(p)
        \/ Invalidate(p)
        \/ Return(p)

SpecConfig == InitConfig /\ [][NextConfig]_vars

\* ------------------------------------------------------------------------
\* Caller 1 appends one record and caller 2 deletes one, one after the other
\* ------------------------------------------------------------------------
KeyPort == <<"p", "o", "r", "t">>
Val443 == <<"4", "4", "3">>
RecSvcTwoKeys ==
    [RecSvcAlpn EXCEPT !.Params = <<[key |-> KeyAlpn, values |-> <<ValH2>>],
                                    [key |-> KeyPort, values |-> <<Val443>>]>>]
RowMxPref20 == Row(ExampleCom, 300, TypeMX, ExampleNet, 20)
RowTxtTtl600 == Row(NameTest, 600, TypeTXT, ValNew, 0)
RowApexTtl600 == Row(AT, 600, TypeTXT, ValNew, 0)

DeleteRecordPool == {RecTxt, RecApex, RecMx, RecSvc, RecSvcTwoKeys}
DeleteLists == {<<r>> : r \in DeleteRecordPool}
DeleteRowPool == {RowMx, RowMxPref20, RowAbsNew, RowTxtTtl600, RowApexTtl600, RowRelOld}

InitDelete ==
    /\ server \in [ZoneNames -> {ProviderZone(ExampleCom, rows) :
                                    rows \in SeqsUpTo(DeleteRowPool, MaxInitRows)}]
    /\ cfg = ValidConfig
    /\ callers = Procs
    /\ InitLocal

\* AppendRecords(ctx, zone, []libdns.Record{r}) by caller 1
CallAppendOne ==
    /\ pc[2] \in {"idle", "done"}
    /\ CallOf(1, {"Append"}, ZoneNames, DeleteLists)

\* DeleteRecords(ctx, zone, []libdns.Record{r}) by caller 2
CallDelete ==
    /\ pc[1] \in {"idle", "done"}
    /\ CallOf(2, {"Delete"}, ZoneNames, DeleteLists)

NextDelete ==
    \/ CallAppendOne
    \/ CallDelete
    \/ \E p \in Procs :
          \/ GetZone(p)
          \/ FetchFew(p)
          \/ SetZone(p)
          \/ UpdateFew(p)
          \/ Invalidate(p)

SpecDelete == InitDelete /\ [][NextDelete]_vars

\* ------------------------------------------------------------------------
\* Two goroutines, each with one operation on one of two zones
\* ------------------------------------------------------------------------
ExampleOrg == <<"e", "x", "a", "m", "p", "l", "e", ".", "o", "r", "g">>
TwoZones == {ExampleCom, ExampleOrg}
ZonesRows == {<<>>, <<RowRelOld>>}
ZonesLists == {<<>>, <<RecTxt>>}

InitZones ==
    /\ server \in {[z \in TwoZones |-> ProviderZone(z, rows[z])] :
                      rows \in [TwoZones -> ZonesRows]}
    /\ cfg = ValidConfig
    /\ callers = Procs
    /\ InitLocal

CallZones(p) == CallOf(p, OpKinds, TwoZones, ZonesLists)

NextZones ==
    \E p \in Procs :
        \/ CallZones(p)
        \/ GetZone(p)
        \/ FetchFew(p)
        \/ SetZone(p)
        \/ UpdateFew(p)
        \/ Invalidate(p)

SpecZones == InitZones /\ [][NextZones]_vars

\* ------------------------------------------------------------------------
\* Two goroutines append to the zone, each once, one record each
\* ------------------------------------------------------------------------
SharedRows == SeqsUpTo({RowRelOld, RowBadAddr}, MaxRows)
SharedLists == {<<RecTxt>>, <<RecApex>>}
SharedLimit == MaxRows + 1

InitShared ==
    /\ server \in [ZoneNames -> {ProviderZone(ExampleCom, rows) : rows \in SharedRows}]
    /\ cfg = ValidConfig
    /\ callers = Procs
    /\ InitLocal

CallShared(p) == CallWith(p, {"Append"}, ZoneNames, SharedLists, SharedLimit)

NextShared ==
    \E p \in Procs :
        \/ CallShared(p)
        \/ GetZone(p)
        \/ FetchFew(p)
        \/ SetZone(p)
        \/ UpdateFew(p)
        \/ Invalidate(p)

SpecShared == InitShared /\ [][NextShared]_vars

\* ------------------------------------------------------------------------
\* Two goroutines read the zone, each once, and nothing is written
\* ------------------------------------------------------------------------
InitReads ==
    /\ server \in [ZoneNames -> {ProviderZone(ExampleCom, rows) :
                                    rows \in SeqsUpTo(ExistingRows, MaxInitRows)}]
    /\ cfg = ValidConfig
    /\ callers = Procs
    /\ InitLocal

CallRead(p) == CallOf(p, {"Get"}, ZoneNames, NoRecords)

NextReads ==
    \E p \in Procs :
        \/ CallRead(p)
        \/ GetZone(p)
        \/ Fetch(p)

SpecReads == InitReads /\ [][NextReads]_vars

\* ------------------------------------------------------------------------
\* Properties
\* ------------------------------------------------------------------------
Finished(p, kinds) == pc[p] = "done" /\ call[p].kind \in kinds

\* the rows getZone handed to the operation of p
Fetched(p) == obs[p].snapshot.ResourceRecords

\* the rows of the document the operation of p wrote
Written(p) ==
    IF "resourceRecords" \in obs[p].payload.keys THEN obs[p].payload.resourceRecords
    ELSE <<>>

Range(f) == {f[i] : i \in DOMAIN f}

\* rec names the row's record set: same type, and the row's name is the
\* absolute or the zone-relative spelling of the record's name
SameTypeAndName(row, rec, zone) ==
    LET e == libdnsRecordToResourceRecord(rec, zone)
    IN /\ row.Type = e.Type
       /\ row.Name \in {e.Name, RelativeName(e.Name, zone)}

SameTypeNameValue(row, rec, zone) ==
    /\ SameTypeAndName(row, rec, zone)
    /\ row.Value = libdnsRecordToResourceRecord(rec, zone).Value

\* C1: a successful AppendRecords writes the rows it was handed, unchanged
\* and in order, followed by one encoded row per record in caller order;
\* nothing is dropped, reordered or de-duplicated.
C1_AppendWritesExistingThenNew ==
    \A p \in Procs :
        (Finished(p, {"Append"}) /\ result[p].status = "ok") =>
            LET E == Fetched(p)
                R == call[p].records
                W == Written(p)
            IN /\ obs[p].sent
               /\ Len(W) = Len(E) + Len(R)
               /\ \A i \in 1..Len(E) : W[i] = E[i]
               /\ \A j \in 1..Len(R) :
                     W[Len(E) + j] = libdnsRecordToResourceRecord(R[j], call[p].zone)

\* a successful Append of a record whose row the zone already holds
C1_Witness ==
    \E p \in Procs :
        /\ Finished(p, {"Append"}) /\ result[p].status = "ok"
        /\ Len(Fetched(p)) >= 2
        /\ \E j \in 1..Len(call[p].records) :
              libdnsRecordToResourceRecord(call[p].records[j], call[p].zone)
                  \in Range(Fetched(p))

\* C2: SetRecords writes exactly the existing rows that share (Type, Name)
\* with no record of R, in their order, followed by the encoded rows of R.
C2_SetWritesKeptThenNew ==
    \A p \in Procs :
        (Finished(p, {"Set"}) /\ obs[p].sent) =>
            LET R == call[p].records
                Other(row) == \A j \in 1..Len(R) : ~SameTypeAndName(row, R[j], call[p].zone)
            IN Written(p) = SelectSeq(Fetched(p), Other) \o EncodeAll(R, call[p].zone)

\* C3: no existing row that has the type of a record of R and its name in
\* the absolute or the zone-relative spelling is among the rows Set keeps.
C3_SetMatchesBothSpellings ==
    \A p \in Procs :
        (Finished(p, {"Set"}) /\ obs[p].sent) =>
            LET R == call[p].records
                W == Written(p)
                kept == SubSeq(W, 1, Len(W) - Len(R))
            IN \A i \in 1..Len(Fetched(p)), j \in 1..Len(R) :
                  SameTypeAndName(Fetched(p)[i], R[j], call[p].zone)
                      => Fetched(p)[i] \notin Range(kept)

\* C4: DeleteRecords writes exactly the existing rows that equal no record
\* of R in (Type, Name, Value), the name in either spelling, in their order.
C4_DeleteWritesUnmatchedRows ==
    \A p \in Procs :
        (Finished(p, {"Delete"}) /\ obs[p].sent) =>
            LET R == call[p].records
                Other(row) == \A j \in 1..Len(R) : ~SameTypeNameValue(row, R[j], call[p].zone)
            IN Written(p) = SelectSeq(Fetched(p), Other)

\* C5: every record DeleteRecords returns stands for a row that was removed.
C5_DeleteReturnsDeletedRecords ==
    \A p \in Procs :
        (Finished(p, {"Delete"}) /\ result[p].status = "ok") =>
            \A k \in 1..Len(result[p].records) :
                \E i \in 1..Len(Fetched(p)) :
                    /\ SameTypeNameValue(Fetched(p)[i], result[p].records[k], call[p].zone)
                    /\ Fetched(p)[i] \notin Range(Written(p))

\* C6: GetRecords returns the record of every row of the document, in
\* order, or fails without records when a row does not convert; it issues
\* no write and removes no cache entry.
C6_GetConvertsAllRowsOrFails ==
    \A p \in Procs :
        Finished(p, {"Get"}) =>
            LET rows == Fetched(p)
                zone == call[p].zone
            IN /\ "PUT" \notin Range(obs[p].reqs)
               /\ DOMAIN obs[p].cacheBefore \subseteq DOMAIN zones
               /\ ~obs[p].got => result[p].status = "error"
               /\ obs[p].got =>
                     IF \A i \in 1..Len(rows) : libdnsRecord(rows[i], zone).ok
                     THEN /\ result[p].status = "ok"
                          /\ Len(result[p].records) = Len(rows)
                          /\ \A i \in 1..Len(rows) :
                                result[p].records[i] = libdnsRecord(rows[i], zone).rec
                     ELSE /\ result[p].status = "error"
                          /\ result[p].records = <<>>

\* a GetRecords that failed on a document with a row that converts and one
\* that does not
C6_Witness ==
    \E p \in Procs :
        /\ Finished(p, {"Get"}) /\ obs[p].got
        /\ \E i, k \in 1..Len(Fetched(p)) :
              /\ libdnsRecord(Fetched(p)[i], call[p].zone).ok
              /\ ~libdnsRecord(Fetched(p)[k], call[p].zone).ok

\* C7: an operation with an empty zone name, or a mutating one with an
\* empty record list, is an error from its first step on, issues no request
\* and leaves the cache as it was.
C7_InvalidArgumentsFailFast ==
    \A p \in Procs :
        (/\ pc[p] # "idle"
         /\ \/ call[p].zone = EMPTY
            \/ call[p].kind \in Mutating /\ Len(call[p].records) = 0) =>
            /\ pc[p] = "done"
            /\ result[p].status = "error"
            /\ obs[p].reqs = <<>>
            /\ zones = obs[p].cacheBefore

\* an initialized provider rejected a mutating call without records on a
\* zone it has cached
C7_Witness ==
    \E p \in Procs :
        /\ Finished(p, Mutating)
        /\ initialized
        /\ call[p].zone \in DOMAIN zones
        /\ Len(call[p].records) = 0
        /\ result[p].status = "error"

\* the answer to a GET does not deliver the zone: transport error, HTTP or
\* API error, or no zone in it
Unfetchable(resp) ==
    \/ resp.transport
    \/ resp.http >= 400
    \/ resp.stype = "ERROR"
    \/ resp.data # "zones"

\* C8: when the GET of a mutating operation does not deliver the zone, the
\* operation fails, the GET is its only request and the zone is not cached.
C8_FailedFetchStopsTheOperation ==
    \A p \in Procs :
        (/\ call[p].kind \in Mutating
         /\ obs[p].getResp # NoResponse
         /\ Unfetchable(obs[p].getResp)) =>
            /\ pc[p] = "done"
            /\ result[p].status = "error"
            /\ obs[p].reqs = <<"GET">>
            /\ ~obs[p].sent
            /\ call[p].zone \notin DOMAIN zones

\* a mutating operation whose GET was answered without a zone
C8_Witness ==
    \E p \in Procs :
        /\ Finished(p, Mutating)
        /\ obs[p].getResp # NoResponse
        /\ ~obs[p].getResp.transport
        /\ obs[p].getResp.http = 200
        /\ obs[p].getResp.stype = "SUCCESS"
        /\ obs[p].getResp.data = "empty"

\* the answer to a PUT confirms the write
Confirmed(resp) ==
    /\ resp.applied
    /\ ~resp.transport
    /\ resp.http < 400
    /\ resp.stype # "ERROR"

\* C9: the cache entry of the zone is gone after a write exactly when the
\* write was confirmed; otherwise it is the document getZone returned.
C9_InvalidateOnlyOnConfirmedWrite ==
    \A p \in Procs :
        (Finished(p, Mutating) /\ obs[p].sent) =>
            IF Confirmed(obs[p].putResp)
            THEN call[p].zone \notin DOMAIN zones
            ELSE /\ call[p].zone \in DOMAIN zones
                 /\ zones[call[p].zone] = obs[p].snapshot

\* C10: after a successful mutation the zone has no cache entry, and the
\* GetRecords that follows fetches the document and returns the records of
\* the rows the provider holds.
C10_ReadAfterWriteRefetches ==
    \A p \in Procs :
        /\ (Finished(p, Mutating) /\ result[p].status = "ok") =>
              call[p].zone \notin DOMAIN zones
        /\ (Finished(p, {"Get"}) /\ obs[p].after = "mutated" /\ call[p].zone # EMPTY) =>
              /\ ~obs[p].fromCache
              /\ obs[p].reqs = <<"GET">>
              /\ result[p].status = "ok" =>
                    LET rows == server[call[p].zone].ResourceRecords
                    IN /\ Len(result[p].records) = Len(rows)
                       /\ \A i \in 1..Len(rows) :
                             result[p].records[i] = libdnsRecord(rows[i], call[p].zone).rec

\* a GetRecords right after a successful mutation returned records
C10_Witness ==
    \E p \in Procs :
        /\ Finished(p, {"Get"}) /\ obs[p].after = "mutated"
        /\ result[p].status = "ok"
        /\ Len(result[p].records) >= 2

\* the (Type, Name, Value) of each row, in order
Triples(rows) == [i \in 1..Len(rows) |-> <<rows[i].Type, rows[i].Name, rows[i].Value>>]

\* C13: zone example.com holds exactly the row {TXT, "test", "old"};
\* SetRecords with the one TXT record test / "new" leaves the zone with
\* exactly the row {TXT, "test", "new"}.
C13_SetReplacesOldTxtRow ==
    \A p \in Procs :
        (/\ Finished(p, {"Set"})
         /\ call[p].zone = ExampleCom
         /\ call[p].records = <<RecTxt>>
         /\ obs[p].before.ResourceRecords = <<RowRelOld>>
         /\ result[p].status = "ok"
         /\ Confirmed(obs[p].putResp)) =>
            Triples(server[ExampleCom].ResourceRecords) = <<<<TypeTXT, NameTest, ValNew>>>>

\* the variants the encoder's type switch has a case for
Recognized == {"Address", "CAA", "CNAME", "MX", "NS", "SRV", "TXT"}

\* C14: a mutating call that is handed a record of a variant the encoder
\* does not recognize fails, and no row with the placeholder name and type
\* is in a document it writes.
C14_UnknownVariantIsAnError ==
    \A p \in Procs :
        (/\ Finished(p, Mutating)
         /\ \E j \in 1..Len(call[p].records) : call[p].records[j].kind \notin Recognized) =>
            /\ result[p].status = "error"
            /\ \A i \in 1..Len(Written(p)) :
                  ~(Written(p)[i].Name = LitUnknown /\ Written(p)[i].Type = TypeUNKNOWN)

\* the response reports a failure: HTTP status 400 or above, or status type
\* ERROR
Rejected(resp) ==
    /\ resp # NoResponse
    /\ ~resp.transport
    /\ resp.http >= 400 \/ resp.stype = "ERROR"

\* C15: an operation whose GET or PUT was answered with HTTP status 400 or
\* above or with status type ERROR, whatever the body, ends with an error,
\* and the cache entry of the zone is not removed.
C15_RejectedResponseFailsTheOperation ==
    \A p \in Procs :
        (Rejected(obs[p].getResp) \/ Rejected(obs[p].putResp)) =>
            /\ pc[p] = "done"
            /\ result[p].status = "error"
            /\ Rejected(obs[p].putResp) => call[p].zone \in DOMAIN zones

\* the call ended without a usable answer: no response, or a response that
\* reports a failure
FailedCall(resp) ==
    /\ resp # NoResponse
    /\ resp.transport \/ Rejected(resp)

\* C16: an operation issues at most one GET and after it at most one PUT;
\* when the GET or the PUT fails the operation ends with an error and the
\* failed request was its last.
C16_NothingIsRetried ==
    \A p \in Procs :
        /\ obs[p].reqs \in {<<>>, <<"GET">>, <<"PUT">>, <<"GET", "PUT">>}
        /\ FailedCall(obs[p].getResp) =>
              /\ pc[p] = "done" /\ result[p].status = "error"
              /\ obs[p].reqs = <<"GET">>
        /\ FailedCall(obs[p].putResp) =>
              /\ pc[p] = "done" /\ result[p].status = "error"
              /\ obs[p].reqs[Len(obs[p].reqs)] = "PUT"

\* the JSON keys of the fields the provider owns
ReadOnlyKeys == {"created", "updated", "roid"}

\* C19: the body of every PUT carries the zone's fields and rows and none
\* of the keys created, updated and roid.
C19_PayloadOmitsReadOnlyFields ==
    \A p \in Procs :
        obs[p].sent =>
            /\ obs[p].payload.keys \cap ReadOnlyKeys = {}
            /\ "origin" \in obs[p].payload.keys

\* the body carries field key with value sent when the fetched value is not
\* the zero value, and leaves the key out when it is
Carried(body, key, sent, fetched, zero) ==
    IF fetched = zero THEN key \notin body.keys
    ELSE key \in body.keys /\ sent = fetched

\* C20: in the body of every PUT of Append, Set and Delete, Origin, SOA,
\* NameServers, WWWInclude, VirtualNameServer, Action and ROID are those of
\* the document getZone returned to the operation.
C20_WriteKeepsTheOtherFields ==
    \A p \in Procs :
        obs[p].sent =>
            LET b == obs[p].payload
                z == obs[p].snapshot
            IN /\ Carried(b, "origin", b.origin, z.Origin, EMPTY)
               /\ Carried(b, "soa", b.soa, z.SOA, NilSOA)
               /\ Carried(b, "nameServers", b.nameServers, z.NameServers, <<>>)
               /\ Carried(b, "wwwInclude", b.wwwInclude, z.WWWInclude, FALSE)
               /\ Carried(b, "virtualNameServer", b.virtualNameServer,
                          z.VirtualNameServer, EMPTY)
               /\ Carried(b, "action", b.action, z.Action, EMPTY)
               /\ Carried(b, "roid", b.roid, z.ROID, 0)

\* a Delete that changed the row list wrote a document with the fetched
\* SOA and name servers
C20_Witness ==
    \E p \in Procs :
        /\ Finished(p, {"Delete"}) /\ obs[p].sent
        /\ result[p].status = "ok"
        /\ Written(p) # Fetched(p)
        /\ obs[p].snapshot.SOA = SomeSOA
        /\ obs[p].payload.soa = SomeSOA
        /\ obs[p].payload.nameServers = SomeNameServers

\* both calls of the two in a row returned without error and the provider
\* stored both documents
BothStored(kind) ==
    /\ Finished(1, {kind}) /\ Finished(2, {kind})
    /\ result[1].status = "ok" /\ result[2].status = "ok"
    /\ Confirmed(obs[1].putResp) /\ Confirmed(obs[2].putResp)

\* C11: after AppendRecords(R1) and then AppendRecords(R2) the provider
\* holds the rows it held before, untouched, followed by the encoded rows of
\* R1 and R2, which is what one AppendRecords(R1 ++ R2) leaves.
C11_TwoAppendsAreOneAppend ==
    LET zone == call[1].zone
        E == obs[1].before.ResourceRecords
    IN /\ (/\ Finished(1, {"Append"}) /\ result[1].status = "ok"
            /\ Confirmed(obs[1].putResp) /\ pc[2] = "idle") =>
              server[zone].ResourceRecords = E \o EncodeAll(call[1].records, zone)
       /\ BothStored("Append") =>
              server[zone].ResourceRecords =
                  E \o EncodeAll(call[1].records \o call[2].records, zone)

\* two Appends of different lists to a zone that held rows
C11_Witness ==
    /\ BothStored("Append")
    /\ Len(obs[1].before.ResourceRecords) >= 1
    /\ call[1].records # call[2].records
    /\ Len(server[call[1].zone].ResourceRecords) >= 3

\* C12: after SetRecords(R) and then SetRecords(R) again the provider holds
\* the rows it held after the first call.
C12_SetTwiceIsSetOnce ==
    (BothStored("Set") /\ call[1].records = call[2].records) =>
        /\ obs[2].before.ResourceRecords = Written(1)
        /\ server[call[2].zone].ResourceRecords = obs[2].before.ResourceRecords

\* SetRecords(R) twice on a zone of which the first call replaced a row and
\* kept a row
C12_Witness ==
    /\ BothStored("Set") /\ call[1].records = call[2].records
    /\ \E i, k \in 1..Len(obs[1].before.ResourceRecords) :
          /\ obs[1].before.ResourceRecords[i] \in Range(Written(1))
          /\ obs[1].before.ResourceRecords[k] \notin Range(Written(1))

\* q's stored write replaced p's stored write, and both had computed their
\* rows from the same document
LostUpdate(p, q) ==
    /\ p # q
    /\ call[p].kind \in Mutating /\ call[q].kind \in Mutating
    /\ call[p].zone = call[q].zone
    /\ obs[p].got /\ obs[q].got /\ obs[p].snapshot = obs[q].snapshot
    /\ Confirmed(obs[p].putResp) /\ Confirmed(obs[q].putResp)
    /\ p \in obs[q].over

\* C17: nothing protects a write against a concurrent one: when two
\* operations computed their rows from the same document and the provider
\* stored both writes, the provider holds the rows of the later write alone
\* (of a write that carries rows), and the earlier operation returns success
\* all the same.
C17_LaterWriteReplacesEarlier ==
    \A p, q \in Procs :
        LostUpdate(p, q) =>
            /\ "resourceRecords" \in obs[q].payload.keys =>
                  server[call[q].zone].ResourceRecords = obs[q].payload.resourceRecords
            /\ pc[p] = "done" => result[p].status = "ok"

\* two Appends from the same document both returned success, and the row of
\* the earlier one is not in the provider's document
C17_Witness ==
    \E p, q \in Procs :
        /\ LostUpdate(p, q)
        /\ Finished(p, {"Append"}) /\ Finished(q, {"Append"})
        /\ result[p].status = "ok" /\ result[q].status = "ok"
        /\ \E j \in 1..Len(call[p].records) :
              libdnsRecordToResourceRecord(call[p].records[j], call[p].zone)
                  \notin Range(server[call[p].zone].ResourceRecords)

\* the documents the provider can hold for the zone of p's operation: the
\* one it held when the operation was called or, once the PUT has left,
\* that one with the body of the PUT applied in full
OldOrNew(p) ==
    {obs[p].before} \cup
    (IF obs[p].sent /\ ~obs[p].unsent
     THEN {ApplyPut(obs[p].before, obs[p].payload, clears) : clears \in BOOLEAN}
     ELSE {})

\* C18: a GET or PUT that is outstanding when ctx is cancelled ends and the
\* operation returns an error; an operation whose ctx is done when it
\* reaches the PUT stores nothing; and the provider's document is the one
\* from before the write or the written one, whole.
C18_CancellationAbortsTheCall ==
    \A p \in Procs :
        /\ obs[p].aborted # {} =>
              /\ pc[p] = "done"
              /\ result[p].status = "error"
        /\ "GET" \in obs[p].aborted => ~obs[p].sent
        /\ obs[p].unsent =>
              /\ pc[p] \in {"put", "done"}
              /\ server[call[p].zone] = obs[p].before
        /\ (pc[p] # "idle" /\ call[p].zone \in ZoneNames) =>
              server[call[p].zone] \in OldOrNew(p)

\* a PUT was abandoned in flight: the operation returned an error and the
\* provider holds the new document
C18_Witness ==
    \E p \in Procs :
        /\ Finished(p, Mutating)
        /\ "PUT" \in obs[p].aborted
        /\ ~obs[p].unsent
        /\ result[p].status = "error"
        /\ server[call[p].zone] # obs[p].before

\* ------------------------------------------------------------------------
\* The record codec
\* ------------------------------------------------------------------------
\* GetRecords of caller 2 returned the records of the rows getZone handed it
GotRecords ==
    /\ pc[2] = "done"
    /\ call[2].kind = "Get"
    /\ result[2].status = "ok"

\* GetRecords of caller 2 ended, and the zone it was handed holds the one row r
ReadRow(r) ==
    /\ pc[2] = "done"
    /\ call[2].kind = "Get"
    /\ obs[2].got
    /\ obs[2].snapshot.ResourceRecords = <<r>>

\* C21: every record GetRecords returns carries a name relative to the zone:
\* it is not empty and it does not end in the zone name, whatever the type
\* of the row it was decoded from.
C21_DecodedNamesAreRelative ==
    GotRecords =>
        \A i \in 1..Len(result[2].records) :
            /\ result[2].records[i].Name # EMPTY
            /\ ~HasSuffix(result[2].records[i].Name, call[2].zone)

\* C22: the SRV row _sip._tcp.sub.example.com of zone example.com decodes to
\* Service sip, Transport tcp, Name sub; the row _sip._tcp decodes to Name @;
\* the row _sip._tcp.sub decodes to Name sub; a row whose name has one label
\* or whose value has two or four fields fails the call.
C22_SrvNameIsRelativeToTheZone ==
    /\ \A r \in {RowSrvAbs, RowSrvRel, RowSrvBare} :
          ReadRow(r) =>
             /\ result[2].status = "ok"
             /\ result[2].records[1].kind = "SRV"
             /\ result[2].records[1].Service = SvcSip
             /\ result[2].records[1].Transport = ProtoTcp
             /\ result[2].records[1].Name = (IF r = RowSrvBare THEN AT ELSE NameSub)
    /\ \A r \in {RowSrvOneLabel, RowSrvTwoFields, RowSrvFourFields} :
          ReadRow(r) => result[2].status = "error"

\* AppendRecords of caller 1 wrote the record r to the empty zone, the
\* provider stored it, and GetRecords of caller 2 was then handed the zone
\* with the one row that was written
RoundTrip(r) ==
    /\ pc[1] = "done"
    /\ call[1].records = <<r>>
    /\ obs[1].before.ResourceRecords = <<>>
    /\ obs[1].putResp.applied
    /\ pc[2] = "done"
    /\ call[2].kind = "Get"
    /\ obs[2].got
    /\ Len(obs[2].snapshot.ResourceRecords) = 1
    /\ obs[2].snapshot.ResourceRecords = obs[1].payload.resourceRecords

\* the records with a zone-relative name
RelativeRecords == CodecRecords \ {RecRRQualified}

\* C23: a record with a zone-relative name that was written to the zone is
\* read back as the same record: same variant, name and type-specific
\* fields, and the TTL in whole seconds.
C23_DecodeOfEncodeIsTheRecord ==
    \A r \in RelativeRecords :
        RoundTrip(r) =>
            result[2] = Ok(<<[r EXCEPT !.TTL = (@ \div Second) * Second]>>)

\* AppendRecords of caller 1 encoded the record r and handed the PUT with
\* its row to sendAPIRequest
Wrote(r) ==
    /\ call[1].records = <<r>>
    /\ obs[1].sent

\* the row the encoder made of the record caller 1 appends: addRecords puts
\* it last
WrittenRow ==
    obs[1].payload.resourceRecords[Len(obs[1].payload.resourceRecords)]

\* a zone-relative name joined to the zone of caller 1, the zone itself for @
Qualified(name) ==
    IF name = AT THEN call[1].zone ELSE name \o DOT \o call[1].zone

\* C24: an Address record is written as a row of Type AAAA when its address
\* is IPv6 and of Type A when it is IPv4.
C24_AddressFamilyDecidesTheType ==
    \A r \in {RecA4, RecA6} :
        Wrote(r) => WrittenRow.Type = (IF r.IP.is6 THEN TypeAAAA ELSE TypeA)

\* C25: the row written for a record with a zone-relative name carries the
\* name joined to the zone (the zone itself for @), for every record type;
\* for SRV it is _service._transport. followed by that name.
C25_EncodedNamesAreZoneQualified ==
    \A r \in RelativeRecords :
        Wrote(r) =>
            WrittenRow.Name =
                (IF r.kind = "SRV"
                 THEN <<"_">> \o r.Service \o DOT \o <<"_">> \o r.Transport \o DOT
                          \o Qualified(r.Name)
                 ELSE Qualified(r.Name))

\* C26: the generic RR named _acme-challenge.config.example.com is written
\* to zone example.com as the row named _acme-challenge.config, with the
\* Type and Data of the record and its TTL in seconds.
C26_QualifiedRRNameIsMadeRelative ==
    Wrote(RecRRQualified) =>
        /\ WrittenRow.Name = AcmeConfig
        /\ WrittenRow.Type = RecRRQualified.Type
        /\ WrittenRow.Value = RecRRQualified.Data
        /\ WrittenRow.TTL = RecRRQualified.TTL \div Second

\* C27: a generic RR with a zone-relative name is written as a row with the
\* Type and Data of the record verbatim, the name joined to the zone and
\* the TTL in whole seconds, never as a row of type UNKNOWN.
C27_GenericRRPassesThrough ==
    \A r \in {RecRR, RecRRAddr} :
        Wrote(r) =>
            /\ WrittenRow.Type = r.Type
            /\ WrittenRow.Value = r.Data
            /\ WrittenRow.Name = Qualified(r.Name)
            /\ WrittenRow.TTL = r.TTL \div Second
            /\ WrittenRow.Type # TypeUNKNOWN

\* C28: a ServiceBinding is written as a row of Type HTTPS when its scheme
\* is https and SVCB otherwise, with the name joined to the zone and the
\* Value "priority target" followed by one key=value term per parameter
\* value: "1 example.net alpn=h2 alpn=h3" for alpn = [h2, h3].
C28_ServiceBindingRow ==
    \A r \in {RecSvc, RecSvcAlpn, RecSvcDns} :
        Wrote(r) =>
            /\ WrittenRow.Type = (IF r.Scheme = SchemeHttps THEN TypeHTTPS ELSE TypeSVCB)
            /\ WrittenRow.Name = Qualified(r.Name)
            /\ WrittenRow.Value = (IF r = RecSvcAlpn THEN SvcValue ELSE SvcValuePlain)

\* the record of the CAA row test.example.com with the given flags
CaaRecord(flags) ==
    [kind |-> "CAA", Name |-> NameTest, TTL |-> 300 * Second, Flags |-> flags,
     Tag |-> TagIssue, Value |-> LetsEncrypt]

\* C29: the CAA row with Value 0 issue "letsencrypt.org" is read as Flags 0,
\* Tag issue, Value letsencrypt.org without the quotes, also when its three
\* fields are separated by more than one space; flags 255 are read as 255;
\* a Value of two or of four fields, flags 256 and flags that are not a
\* number fail the call.
C29_CaaValueHasThreeFields ==
    /\ ReadRow(RowCaa) => result[2] = Ok(<<CaaRecord(0)>>)
    /\ ReadRow(RowCaaWide) => result[2] = Ok(<<CaaRecord(0)>>)
    /\ ReadRow(RowCaa255) => result[2] = Ok(<<CaaRecord(255)>>)
    /\ \A r \in {RowCaaTwoFields, RowCaaFourFields, RowCaa256, RowCaaNoNumber} :
          ReadRow(r) => result[2].status = "error"

C29_Witness ==
    /\ ReadRow(RowCaa)
    /\ result[2].status = "ok"

\* ------------------------------------------------------------------------
\* Initialization
\* ------------------------------------------------------------------------
\* C30: a provider that is initialized has a Context and an Endpoint that
\* are not empty, and the step that initializes it turns an empty Context
\* into "4" and an empty Endpoint into the default endpoint and keeps every
\* field the caller set.
C30_InitializationFillsInDefaults ==
    /\ [](initialized => cfg.Context # "" /\ cfg.Endpoint # "")
    /\ [][(~initialized /\ initialized') =>
             /\ cfg'.Context = (IF cfg.Context = "" THEN "4" ELSE cfg.Context)
             /\ cfg'.Endpoint = (IF cfg.Endpoint = "" THEN DefaultEndpoint
                                 ELSE cfg.Endpoint)
             /\ cfg'.Username = cfg.Username /\ cfg.Username # ""
             /\ cfg'.Password = cfg.Password /\ cfg.Password # ""]_vars

C30_Witness ==
    /\ initialized
    /\ cfg.Context = "1"
    /\ cfg.Endpoint = DefaultEndpoint

\* ------------------------------------------------------------------------
\* The cache
\* ------------------------------------------------------------------------
\* the number of GET requests the callers have issued
Gets == Len(obs[1].reqs) + Len(obs[2].reqs)

\* C31: getZone returns the cached zone without a request when the cache
\* holds one, and issues a GET only when it holds none; a zone that was
\* fetched is stored under its name and returned; when both GetRecords
\* calls return records, one GET was issued in all and both return the
\* same records.
C31_CacheReadFetchesOnce ==
    /\ \A p \in Procs :
          /\ pc[p] = "fetch" => call[p].zone \notin DOMAIN zones
          /\ (pc[p] = "done" /\ obs[p].got) =>
                /\ call[p].zone \in DOMAIN zones
                /\ zones[call[p].zone] = obs[p].snapshot
                /\ obs[p].reqs = (IF obs[p].fromCache THEN <<>> ELSE <<"GET">>)
    /\ (result[1].status = "ok" /\ result[2].status = "ok") =>
          /\ Gets = 1
          /\ result[1].records = result[2].records

C31_Witness ==
    /\ result[1].status = "ok"
    /\ result[2].status = "ok"
    /\ obs[2].fromCache
    /\ Len(result[2].records) = MaxInitRows

C35_PayloadCarriesRecordList ==
    \A p \in Procs :
        obs[p].sent =>
            /\ "resourceRecords" \in obs[p].payload.keys
            /\ (Len(zoneData[p].ResourceRecords) = 0 /\ pc[p] = "done"
                    /\ result[p].status = "ok") =>
                  Len(server[call[p].zone].ResourceRecords) = 0

\* C36: a row the zone holds whose Type, Name and Value are those of a
\* record passed to DeleteRecords is not in the document DeleteRecords
\* writes, whatever the row's TTL and Pref.
C36_DeleteIgnoresTtlAndPref ==
    \A p \in Procs :
        (Finished(p, {"Delete"}) /\ obs[p].sent) =>
            \A i \in 1..Len(Fetched(p)), j \in 1..Len(call[p].records) :
                SameTypeNameValue(Fetched(p)[i], call[p].records[j], call[p].zone) =>
                    Fetched(p)[i] \notin Range(Written(p))

CacheEntry(cache, z) == IF z \in DOMAIN cache THEN <<cache[z]>> ELSE <<>>

\* C38: a step that changes the provider's document of a zone or the cache
\* entry of a zone is a step of an operation that was called for that zone;
\* an operation leaves the cache entry and the provider's document of every
\* other zone as they are.
C38_OtherZonesAreUntouched ==
    [][\A z \in DOMAIN server :
          (server'[z] # server[z] \/ CacheEntry(zones', z) # CacheEntry(zones, z)) =>
              \E p \in Procs : pc'[p] # pc[p] /\ call[p].zone = z]_vars

\* caller 1 appended to example.com while the cache held example.org, which
\* caller 2 had read: example.org is still cached, its document unchanged
C38_Witness ==
    /\ Finished(1, {"Append"}) /\ result[1].status = "ok"
    /\ call[1].zone = ExampleCom
    /\ ExampleOrg \in DOMAIN obs[1].cacheBefore
    /\ Finished(2, {"Get"}) /\ result[2].status = "ok"
    /\ call[2].zone = ExampleOrg
    /\ DOMAIN zones = {ExampleOrg}
    /\ zones[ExampleOrg] = server[ExampleOrg]
    /\ server[ExampleCom] # obs[1].before

\* C39: zonesMutex is released on every path of getZone and setZone, so a
\* held mutex becomes free again and no caller waits for it forever: under
\* fair scheduling, with a transport that answers, every operation that was
\* called returns.
C39_EveryOperationReturns ==
    /\ (zonesMutex # 0) ~> (zonesMutex = 0)
    /\ \A p \in Procs : (pc[p] \notin {"idle", "done"}) ~> (pc[p] = "done")
    /\ [](\A p \in Procs : pc[p] \in {"idle", "done"} => zonesMutex # p)

\* both operations returned, the one of caller 1 because its GET failed
C39_Witness ==
    /\ pc[1] = "done" /\ pc[2] = "done"
    /\ obs[1].reqs = <<"GET">> /\ result[1].status = "error"
    /\ call[2].kind \in Mutating /\ result[2].status = "ok"
    /\ zonesMutex = 0

\* C34: the rows an AppendRecords writes are the rows getZone handed it
\* followed by the rows of its own records, whatever another AppendRecords
\* that was handed the same cached document does meanwhile.
C34_AppendWritesItsOwnRows ==
    \A p \in Procs :
        (call[p].kind = "Append" /\ obs[p].sent) =>
            Written(p) = Fetched(p) \o EncodeAll(call[p].records, call[p].zone)

\* C33: once a mutating operation has returned success, a cache entry for
\* its zone is a document that another operation fetched after the provider
\* had stored that write; the document the operation itself worked from,
\* and any document fetched before its write, is no longer cached.
C33_NoStaleEntryAfterAWrite ==
    \A p \in Procs :
        (/\ Finished(p, Mutating)
         /\ result[p].status = "ok"
         /\ call[p].zone \in DOMAIN zones) =>
            \E q \in Procs \ {p} :
                /\ obs[q].got /\ ~obs[q].fromCache
                /\ call[q].zone = call[p].zone
                /\ obs[q].snapshot = zones[call[p].zone]
                /\ p \in obs[q].fetchedAfter

\* caller 2 was called before caller 1's write reached the provider and
\* fetched the zone after caller 1 had dropped the entry: the cache holds
\* the written document
C33_Witness ==
    /\ Finished(1, {"Append"}) /\ result[1].status = "ok"
    /\ call[1].records # <<>>
    /\ obs[2].before = obs[1].before
    /\ obs[2].got /\ ~obs[2].fromCache
    /\ call[1].zone \in DOMAIN zones
    /\ zones[call[1].zone].ResourceRecords = Written(1)
====
